---- MODULE Spec2Model ----
(***************************************************************************)
(* Process supervision and console distribution of olindenbaum/mcgonalds. *)
(*                                                                         *)
(* One managed server identity is modelled: its handle (server.Server in   *)
(* internal/server/server.go), the OS processes the handle spawns, the     *)
(* goroutines a successful Start launches (readConsole, monitorProcess),   *)
(* and the part of the registry (server_manager.ServerManager) that        *)
(* starts, stops, restarts and commands the handle and fans its console    *)
(* out to subscribers.                                                     *)
(*                                                                         *)
(* Every handle method runs under s.mutex from its first to its last       *)
(* statement, so each method is one atomic action.  Restart releases the   *)
(* mutex between its Stop and its Start, so it is two actions.  The        *)
(* goroutines read s.cmd / s.stdout without the mutex when they are first  *)
(* scheduled, so the read is a step of its own.                            *)
(***************************************************************************)
EXTENDS Integers, Sequences, FiniteSets, TLC

\* ------------------------------------------------------------------ bounds
\* exec.Command values one handle creates (Start calls that reach line 72)
MaxCmd == 3
\* bytes written to the input streams of the processes, all together
MaxStdin == 4
\* exec.Command values created in the specification that sends commands
MaxCmdIO == 2
\* exec.Command values created in the specification of the console over
\* the lifecycle
MaxCmdCast == 2
\* subscriber channels created in the specification of the console over the
\* lifecycle
MaxSubsCast == 1
\* exec.Command values created in the specification of the retried start
MaxCmdRetry == 2
\* exec.Command values created in the specification of the subscribers
MaxCmdSubs == 1
\* lines the processes write to their output, all together
MaxLines == 2
\* subscriber channels ever created by SubscribeOutput
MaxSubs == 2
\* capacity of s.console: make(chan string, 100), scaled down
ConsoleCap == 2
\* capacity of a subscriber channel: make(chan string, 100), scaled down
SubCap == 1
\* server records the store ever holds (the auto-increment ids handed out)
MaxId == 3
\* callers inside GetServer at the same time
MaxCallers == 2

Cmds == 1..MaxCmd
Chans == 1..MaxSubs

\* a line of output: the k-th line process c wrote
Lines == [c : Cmds, k : 1..MaxLines]

\* command texts of SendCommand, as sequences of characters
Texts == { <<"s">>, <<"l", "s">> }

\* ExecutableCommand values a server's persisted config may hold
ExecCommands == { <<" ">>, <<"j", " ", "a">> }

VARIABLES
  \* ---- server.Server fields
  isRunning,      \* s.isRunning
  cmd,            \* s.cmd (with s.stdin, s.stdout): index of the exec.Cmd, 0 = nil
  stopOnce,       \* s.stopOnce has fired
  doneOnce,       \* s.doneOnce has fired
  console,        \* s.console: the lines buffered in the channel
  consoleClosed,  \* close(s.console) has run
  doneClosed,     \* close(s.done) has run
  \* ---- operating system
  proc,           \* proc[c]: "none" | "unstarted" | "alive" | "exited"
  sigs,           \* sigs[c]: calls of cmd.Process.Signal(os.Interrupt) on c
  stdin,          \* stdin[c]: bytes written to the input stream of process c
  emitted,        \* emitted[c]: lines process c wrote to its output pipe
  scanned,        \* scanned[c]: lines read from the output pipe of c
  \* ---- goroutines
  mon,            \* mon[g]: monitorProcess started by cmd g: [st, on]
  rdr,            \* rdr[g]: readConsole started by cmd g: [st, on, k]
  loop,           \* loop[g]: streamServerOutput started with cmd g:
                  \*          [st, line, snap, live, i]
  \* ---- registry
  execCmd,        \* persisted ServerConfig.ExecutableCommand
  restarting,     \* callers inside Server.Restart, after Stop and before Start
  subArr,         \* backing array of sm.outputStreams[id] (0 = never written)
  subLen,         \* len(sm.outputStreams[id])
  chans,          \* chans[ch]: [st: "none" | "open" | "closed", n: lines buffered]
  crashed,        \* the Go runtime panicked (the whole program is gone)
  \* ---- observation
  ev,             \* the last step: [op, err, c, arg]
  startsSince,    \* successful Starts since the last successful Stop or process exit
  delivered,      \* delivered[ch]: the lines sent into channel ch, in order
  broadcast,      \* lines whose fan-out to the subscribers has finished
  missed          \* missed[ch]: the lines already broadcast when ch was returned

\* ---- the registry: sm.servers and the persisted store
\* uint8(serverModel.ID): the registry key of a persisted id
KeyMod == 256
KeyOf(id) == id % KeyMod
\* ids of the persisted server records (model.Server.ID, a uint). The store
\* hands out growing ids and none twice: the first MaxId - 1 ids and then,
\* the ids in between used up by records created and deleted earlier, the
\* first id beyond the range of the registry key
PersistIds == 1..(MaxId - 1) \cup {KeyMod + 1}
\* the id the store hands out after id
NextId(id) == IF id + 1 < MaxId THEN id + 1 ELSE KeyMod + 1
\* server names (model.Server.Name)
Names == {"a", "b"}
NoName == ""
Keys == { KeyOf(id) : id \in PersistIds }
\* the requests that call GetServer, one call each
Callers == 1..MaxCallers
\* the server whose handle the fields above describe, and that handle
TheServer == 1
TheHandle == 1
\* user ids (model.User.ID); the owner of the server
Users == {1, 2}
Owner == 1
\* what a destination path holds: nothing, or a link to a source (the path
\* of the jar file, the path of the mod pack)
NoLink == 0
JarSource == 1
ModsSource == 2
\* handle objects the registry constructs, the first included
MaxHandles == 3
\* <path>/env of a server: the directory, server.jar, mods, start.sh
NoEnv == [dir |-> FALSE, jar |-> NoLink, mods |-> NoLink, script |-> FALSE]

VARIABLES
  dbServers,      \* dbServers[id]: name of the persisted record, NoName = none
  dbConfigs,      \* ids that have a persisted ServerConfig
  fsEnv,          \* fsEnv[name]: what <path>/env holds: [dir, jar, mods, script]
  servers,        \* sm.servers[key]: the handle object stored, 0 = no entry
  numHandles,     \* server.NewServer calls so far (names the handle objects)
  lastId,         \* the last id the store handed out
  gpc,            \* gpc[p]: where caller p is inside GetServer, and its result
  who,            \* the user id of the last request
  \* ---- history
  built,          \* built[key]: handles constructed for key since its removal
  model           \* model[h]: s.model.ID of handle h, 0 = not constructed yet

\* ---- the locks: sm.mutex, sm.streamMutex, and s.mutex of each handle
\* calls in progress at the same time
MaxProcs == 2
Procs == 1..MaxProcs
\* two servers with a handle in the registry
Idents == {1, 2}
NoOp == [op |-> "none", id |-> 0, pc |-> "idle"]

VARIABLES
  smMutex,        \* sm.mutex: [w: the call holding it for writing, 0 = none;
                  \*            r: the calls holding it for reading]
  sMutex,         \* sMutex[id]: the call holding s.mutex of the handle, 0 = none
  call,           \* call[p]: [op, id, pc], where call p is in its operation
  running,        \* running[id]: s.isRunning of the handle of id
  pipeFull,       \* pipeFull[id]: the input pipe of the process is full and
                  \*               the process does not read it
  streamMutex     \* sm.streamMutex: [w, r] as for sm.mutex

\* ---- the fleet: every handle the registry constructed, side by side, and
\* the subscriber lists of every key
Handles == 1..MaxHandles

VARIABLES
  fleetRunning,   \* fleetRunning[h]: s.isRunning of handle h, its process alive
  outputStreams,  \* sm.outputStreams[key]: the channels subscribed under key
  streamers,      \* the goroutines streamServerOutput(id, srv): <<key, handle>>
  subscribedTo,   \* subscribedTo[ch]: the key SubscribeOutput made ch for, 0 = none
  heard           \* heard[ch]: the ids of the servers whose lines were sent to ch

fleetvars == <<fleetRunning, outputStreams, streamers, subscribedTo, heard>>

mutexvars == <<smMutex, sMutex, call, running, pipeFull, streamMutex>>

lockvars == <<mutexvars, fleetvars>>

regvars == <<dbServers, dbConfigs, fsEnv, servers, numHandles, lastId, gpc,
             who, built, model, lockvars>>

\* what the handle and its goroutines own, the console apart
handlevars == <<isRunning, cmd, stopOnce, doneOnce, doneClosed, proc, sigs,
                stdin, mon, rdr, loop, execCmd, restarting, startsSince>>

\* what the console and its fan-out own, the state of the program apart
outvars == <<console, consoleClosed, emitted, scanned, subArr, subLen, chans,
             delivered, broadcast, missed>>

\* what the console and its fan-out own
castvars == <<console, consoleClosed, emitted, scanned, subArr, subLen, chans,
              crashed, delivered, broadcast, missed>>

vars == <<isRunning, cmd, stopOnce, doneOnce, console, consoleClosed,
          doneClosed, proc, sigs, stdin, emitted, scanned, mon, rdr, loop,
          execCmd, restarting, subArr, subLen, chans, crashed, ev,
          startsSince, delivered, broadcast, missed, dbServers, dbConfigs,
          fsEnv, servers, numHandles, lastId, gpc, who, built, model,
          smMutex,
          sMutex, call, running, pipeFull, streamMutex, fleetRunning,
          outputStreams, streamers, subscribedTo, heard>>

\* ------------------------------------------------------------ pure helpers
IsSpace(ch) == ch \in {" ", "\t", "\n"}

\* strings.Fields: the maximal runs of non-space characters
RECURSIVE FieldsFrom(_, _, _)
FieldsFrom(s, i, cur) ==
  IF i > Len(s)
    THEN IF cur = <<>> THEN <<>> ELSE <<cur>>
    ELSE IF IsSpace(s[i])
      THEN IF cur = <<>> THEN FieldsFrom(s, i + 1, <<>>)
                         ELSE <<cur>> \o FieldsFrom(s, i + 1, <<>>)
      ELSE FieldsFrom(s, i + 1, Append(cur, s[i]))

Fields(s) == FieldsFrom(s, 1, <<>>)

\* exec.Cmd values created so far
NumCmd == Cardinality({c \in Cmds : proc[c] # "none"})

Alive == {c \in Cmds : proc[c] = "alive"}

RECURSIVE SumLen(_, _)
SumLen(f, S) ==
  IF S = {} THEN 0
  ELSE LET c == CHOOSE x \in S : TRUE IN Len(f[c]) + SumLen(f, S \ {c})

\* bytes written so far
Written == SumLen(stdin, Cmds)

Event(op, err, c, arg) == [op |-> op, err |-> err, c |-> c, arg |-> arg]

NoLine == [c |-> 0, k |-> 0]
NoReader == [st |-> "none", on |-> 0, k |-> 0]
NoCall == [st |-> "idle", key |-> 0, ret |-> 0, err |-> "nil"]
NoLoop == [st |-> "none", line |-> NoLine, snap |-> <<>>, live |-> FALSE, i |-> 0]

\* -------------------------------------------------------------------- Init
Init ==
  /\ isRunning = FALSE
  /\ cmd = 0
  /\ stopOnce = FALSE
  /\ doneOnce = FALSE
  /\ proc = [c \in Cmds |-> "none"]
  /\ sigs = [c \in Cmds |-> 0]
  /\ stdin = [c \in Cmds |-> <<>>]
  /\ console = <<>>
  /\ consoleClosed = FALSE
  /\ doneClosed = FALSE
  /\ emitted = [c \in Cmds |-> 0]
  /\ scanned = [c \in Cmds |-> 0]
  /\ mon = [c \in Cmds |-> [st |-> "none", on |-> 0]]
  /\ rdr = [c \in Cmds |-> NoReader]
  /\ loop = [c \in Cmds |-> NoLoop]
  /\ subArr = <<>>
  /\ subLen = 0
  /\ chans = [ch \in Chans |-> [st |-> "none", n |-> 0]]
  /\ crashed = FALSE
  /\ delivered = [ch \in Chans |-> <<>>]
  /\ broadcast = {}
  /\ missed = [ch \in Chans |-> {}]
  /\ execCmd \in ExecCommands
  /\ restarting = 0
  /\ ev = Event("Init", "nil", 0, <<>>)
  /\ startsSince = 0
  \* NewServerManager: one persisted server, its handle loaded from the store
  /\ dbServers = [id \in PersistIds |-> IF id = TheServer THEN "a" ELSE NoName]
  /\ dbConfigs = {TheServer}
  /\ fsEnv = [n \in Names |->
                IF n = "a"
                  THEN [dir |-> TRUE, jar |-> JarSource, mods |-> NoLink,
                        script |-> TRUE]
                  ELSE NoEnv]
  /\ servers = [k \in Keys |-> IF k = KeyOf(TheServer) THEN TheHandle ELSE 0]
  /\ numHandles = 1
  /\ lastId = 1
  /\ gpc = [p \in Callers |-> NoCall]
  /\ who = Owner
  /\ built = [k \in Keys |-> IF k = KeyOf(TheServer) THEN 1 ELSE 0]
  /\ model = [h \in 1..MaxHandles |-> IF h = TheHandle THEN TheServer ELSE 0]
  /\ smMutex = [w |-> 0, r |-> {}]
  /\ streamMutex = [w |-> 0, r |-> {}]
  /\ sMutex = [id \in Idents |-> 0]
  /\ call = [p \in Procs |-> NoOp]
  /\ running = [id \in Idents |-> FALSE]
  /\ fleetRunning = [h \in Handles |-> FALSE]
  /\ outputStreams = [k \in Keys |-> {}]
  /\ streamers = {}
  /\ subscribedTo = [ch \in Chans |-> 0]
  /\ heard = [ch \in Chans |-> {}]
  /\ pipeFull = [id \in Idents |-> FALSE]

\* ------------------------------------------------------------ Server.Start
\* spawn is the outcome of the calls Start makes outside the handle:
\* "ok", "configErr" (GetConfig fails), "spawnErr" (pipe or cmd.Start fails)
\* a Start that sets s.isRunning before cmd.Start() has succeeded
ServerStartEager(op, spawn) ==
  IF isRunning
    THEN /\ ev' = Event(op, "AlreadyRunning", cmd, <<>>)
         /\ UNCHANGED <<isRunning, cmd, proc, mon, rdr, startsSince>>
    ELSE IF spawn = "configErr"
      THEN /\ ev' = Event(op, "ConfigErr", cmd, <<>>)
           /\ UNCHANGED <<isRunning, cmd, proc, mon, rdr, startsSince>>
      ELSE IF Len(Fields(execCmd)) = 0
        THEN /\ ev' = Event(op, "InvalidCommand", cmd, <<>>)
             /\ UNCHANGED <<isRunning, cmd, proc, mon, rdr, startsSince>>
        ELSE /\ NumCmd < MaxCmd
             /\ LET c == NumCmd + 1 IN
                /\ cmd' = c
                /\ IF spawn = "spawnErr"
                     THEN /\ proc' = [proc EXCEPT ![c] = "unstarted"]
                          /\ ev' = Event(op, "SpawnFailed", c, <<>>)
                          /\ isRunning' = TRUE
                          /\ UNCHANGED <<mon, rdr, startsSince>>
                     ELSE /\ proc' = [proc EXCEPT ![c] = "alive"]
                          /\ isRunning' = TRUE
                          /\ rdr' = [rdr EXCEPT ![c].st = "new"]
                          /\ mon' = [mon EXCEPT ![c] = [st |-> "new", on |-> 0]]
                          /\ ev' = Event(op, "nil", c, <<>>)
                          /\ startsSince' = startsSince + 1

ServerStart(op, spawn) ==
  IF isRunning
    THEN /\ ev' = Event(op, "AlreadyRunning", cmd, <<>>)
         /\ UNCHANGED <<isRunning, cmd, proc, mon, rdr, startsSince>>
    ELSE IF spawn = "configErr"
      THEN /\ ev' = Event(op, "ConfigErr", cmd, <<>>)
           /\ UNCHANGED <<isRunning, cmd, proc, mon, rdr, startsSince>>
      ELSE IF Len(Fields(execCmd)) = 0
        THEN /\ ev' = Event(op, "InvalidCommand", cmd, <<>>)
             /\ UNCHANGED <<isRunning, cmd, proc, mon, rdr, startsSince>>
        ELSE /\ NumCmd < MaxCmd
             /\ LET c == NumCmd + 1 IN
                /\ cmd' = c
                /\ IF spawn = "spawnErr"
                     THEN /\ proc' = [proc EXCEPT ![c] = "unstarted"]
                          /\ ev' = Event(op, "SpawnFailed", c, <<>>)
                          /\ UNCHANGED <<isRunning, mon, rdr, startsSince>>
                     ELSE /\ proc' = [proc EXCEPT ![c] = "alive"]
                          /\ isRunning' = TRUE
                          /\ rdr' = [rdr EXCEPT ![c].st = "new"]
                          /\ mon' = [mon EXCEPT ![c] = [st |-> "new", on |-> 0]]
                          /\ ev' = Event(op, "nil", c, <<>>)
                          /\ startsSince' = startsSince + 1

\* ------------------------------------------------------------- Server.Stop
\* Stop without its `if !s.isRunning` guard
ServerStopUnguarded(op) ==
  /\ IF stopOnce
       THEN UNCHANGED <<stopOnce, sigs>>
       ELSE /\ stopOnce' = TRUE
            /\ sigs' = [sigs EXCEPT ![IF cmd = 0 THEN 1 ELSE cmd] = @ + 1]
  /\ isRunning' = FALSE
  /\ ev' = Event(op, "nil", cmd, <<>>)
  /\ startsSince' = 0

\* Stop that leaves the flag to the monitor instead of clearing it itself
ServerStopLazy(op) ==
  IF ~isRunning
    THEN /\ ev' = Event(op, "NotRunning", cmd, <<>>)
         /\ UNCHANGED <<isRunning, stopOnce, sigs, startsSince>>
    ELSE /\ IF stopOnce
              THEN UNCHANGED <<stopOnce, sigs>>
              ELSE /\ stopOnce' = TRUE
                   /\ sigs' = [sigs EXCEPT ![cmd] = @ + 1]
         /\ ev' = Event(op, "nil", cmd, <<>>)
         /\ UNCHANGED <<isRunning, startsSince>>

ServerStop(op) ==
  IF ~isRunning
    THEN /\ ev' = Event(op, "NotRunning", cmd, <<>>)
         /\ UNCHANGED <<isRunning, stopOnce, sigs, startsSince>>
    ELSE /\ IF stopOnce
              THEN UNCHANGED <<stopOnce, sigs>>
              ELSE /\ stopOnce' = TRUE
                   \* a Signal that fails (the process is gone) is only logged
                   /\ sigs' = [sigs EXCEPT ![cmd] = @ + 1]
         /\ isRunning' = FALSE
         /\ ev' = Event(op, "nil", cmd, <<>>)
         /\ startsSince' = 0

\* ------------------------------------------------------ Server.SendCommand
\* SendCommand that writes the text without the trailing newline
ServerSendCommandRaw(text) ==
  IF ~isRunning
    THEN /\ ev' = Event("SendCommand", "NotRunning", cmd, text)
         /\ UNCHANGED stdin
    ELSE IF proc[cmd] = "alive"
      THEN /\ Written + Len(text) + 1 <= MaxStdin
           /\ stdin' = [stdin EXCEPT ![cmd] = @ \o text]
           /\ ev' = Event("SendCommand", "nil", cmd, text)
      ELSE /\ ev' = Event("SendCommand", "WriteFailed", cmd, text)
           /\ UNCHANGED stdin

ServerSendCommand(text) ==
  IF ~isRunning
    THEN /\ ev' = Event("SendCommand", "NotRunning", cmd, text)
         /\ UNCHANGED stdin
    ELSE IF proc[cmd] = "alive"
      THEN /\ Written + Len(text) + 1 <= MaxStdin
           /\ stdin' = [stdin EXCEPT ![cmd] = @ \o text \o <<"\n">>]
           /\ ev' = Event("SendCommand", "nil", cmd, text)
      ELSE \* the read end of the pipe went away with the process
           /\ ev' = Event("SendCommand", "WriteFailed", cmd, text)
           /\ UNCHANGED stdin

\* ------------------------------------------------------- registry methods
StartOutcomes == {"ok", "configErr", "spawnErr"}

\* StartServer takes sm.mutex.Lock: no RestartServer holds the read lock
StartServer ==
  /\ ~crashed
  /\ UNCHANGED regvars
  /\ restarting = 0
  /\ \E spawn \in StartOutcomes : ServerStart("Start", spawn)
  \* go sm.streamServerOutput(id, srv)
  /\ loop' = IF ev'.err = "nil"
               THEN [loop EXCEPT ![cmd'].st = "recv"]
               ELSE loop
  /\ UNCHANGED <<stopOnce, doneOnce, doneClosed, sigs, stdin, execCmd,
                 restarting>>
  /\ UNCHANGED castvars

StopServer ==
  /\ ~crashed
  /\ UNCHANGED regvars
  /\ ServerStop("Stop")
  /\ UNCHANGED <<cmd, doneOnce, doneClosed, proc, stdin, mon, rdr, loop,
                 execCmd, restarting>>
  /\ UNCHANGED castvars

\* Restart that goes on to Start whatever Stop returned
RestartStopIgnoringError ==
  /\ ~crashed
  /\ UNCHANGED regvars
  /\ ServerStop("RestartStop")
  /\ restarting' = restarting + 1
  /\ UNCHANGED <<cmd, doneOnce, doneClosed, proc, stdin, mon, rdr, loop,
                 execCmd>>
  /\ UNCHANGED castvars

\* Server.Restart, first half: s.Stop(); a failure is returned as it is
RestartStop ==
  /\ ~crashed
  /\ UNCHANGED regvars
  /\ ServerStop("RestartStop")
  /\ restarting' = IF ev'.err = "nil" THEN restarting + 1 ELSE restarting
  /\ UNCHANGED <<cmd, doneOnce, doneClosed, proc, stdin, mon, rdr, loop,
                 execCmd>>
  /\ UNCHANGED castvars

\* Server.Restart, second half: return s.Start()
RestartStart ==
  /\ ~crashed
  /\ UNCHANGED regvars
  /\ restarting > 0
  /\ \E spawn \in StartOutcomes : ServerStart("RestartStart", spawn)
  /\ restarting' = restarting - 1
  /\ UNCHANGED <<stopOnce, doneOnce, doneClosed, sigs, stdin, loop, execCmd>>
  /\ UNCHANGED castvars

SendCommand ==
  /\ ~crashed
  /\ UNCHANGED regvars
  /\ \E text \in Texts : ServerSendCommand(text)
  /\ UNCHANGED <<isRunning, cmd, stopOnce, doneOnce, doneClosed, proc, sigs,
                 mon, rdr, loop, execCmd, restarting, startsSince>>
  /\ UNCHANGED castvars

\* ------------------------------------------------------------- the process
\* ------------------------------------------ ServerManager.UpdateServerCommand
\* the executable command of the persisted configuration is replaced,
\* unless a query or the save fails
UpdateServerCommand(command, db) ==
  /\ ~crashed
  /\ UNCHANGED regvars
  /\ restarting = 0
  /\ IF db = "ok"
       THEN /\ execCmd' = command
            /\ ev' = Event("UpdateCommand", "nil", 0, <<>>)
       ELSE /\ execCmd' = execCmd
            /\ ev' = Event("UpdateCommand", "DbError", 0, <<>>)
  /\ UNCHANGED <<isRunning, cmd, stopOnce, doneOnce, doneClosed, proc, sigs,
                 stdin, mon, rdr, loop, restarting, startsSince>>
  /\ UNCHANGED castvars

\* The process ends: on the interrupt, by crashing, or by finishing
ProcExit(c) ==
  /\ ~crashed
  /\ UNCHANGED regvars
  /\ proc[c] = "alive"
  /\ proc' = [proc EXCEPT ![c] = "exited"]
  /\ ev' = Event("Exit", "nil", c, <<>>)
  /\ startsSince' = 0
  /\ UNCHANGED <<isRunning, cmd, stopOnce, doneOnce, doneClosed, sigs, stdin,
                 mon, rdr, loop, execCmd, restarting>>
  /\ UNCHANGED castvars

\* --------------------------------------------------- Server.monitorProcess
\* s.cmd.Wait(): the goroutine reads s.cmd when it is first scheduled
MonitorWait(g) ==
  /\ ~crashed
  /\ UNCHANGED regvars
  /\ mon[g].st = "new"
  /\ mon' = [mon EXCEPT ![g] = [st |-> "wait", on |-> cmd]]
  /\ ev' = Event("MonitorWait", "nil", g, <<>>)
  /\ UNCHANGED <<isRunning, cmd, stopOnce, doneOnce, doneClosed, proc, sigs,
                 stdin, rdr, loop, execCmd, restarting, startsSince>>
  /\ UNCHANGED castvars

\* a monitor that leaves s.isRunning as it is
MonitorBodyKeeping(g) ==
  /\ ~crashed
  /\ UNCHANGED regvars
  /\ mon[g].st = "wait"
  /\ proc[mon[g].on] \in {"exited", "unstarted"}
  /\ isRunning' = isRunning
  /\ doneOnce' = TRUE
  /\ doneClosed' = (doneClosed \/ ~doneOnce)
  /\ mon' = [mon EXCEPT ![g].st = "done"]
  /\ ev' = Event("Monitor", "nil", g, <<>>)
  /\ UNCHANGED <<cmd, stopOnce, proc, sigs, stdin, rdr, loop, execCmd,
                 restarting, startsSince>>
  /\ UNCHANGED castvars

\* Wait has returned (the process it waits on is gone, or was never started)
\* and the body runs under the mutex; doneOnce.Do(close(s.done))
MonitorBody(g) ==
  /\ ~crashed
  /\ UNCHANGED regvars
  /\ mon[g].st = "wait"
  /\ proc[mon[g].on] \in {"exited", "unstarted"}
  /\ isRunning' = FALSE
  /\ doneOnce' = TRUE
  /\ doneClosed' = (doneClosed \/ ~doneOnce)
  /\ mon' = [mon EXCEPT ![g].st = "done"]
  /\ ev' = Event("Monitor", "nil", g, <<>>)
  /\ UNCHANGED <<cmd, stopOnce, proc, sigs, stdin, rdr, loop, execCmd,
                 restarting, startsSince>>
  /\ UNCHANGED castvars

\* -------------------------------------------------------- the process output
\* ev names the last registry operation; a step of a goroutine or of a
\* subscriber is no registry operation
CastEvent == Event("Cast", "nil", 0, <<>>)

\* lines written so far by all processes
RECURSIVE SumOf(_, _)
SumOf(f, S) ==
  IF S = {} THEN 0
  ELSE LET c == CHOOSE x \in S : TRUE IN f[c] + SumOf(f, S \ {c})

TotalEmitted == SumOf(emitted, Cmds)

\* The process writes one more line to its standard output
Emit(c) ==
  /\ ~crashed
  /\ UNCHANGED regvars
  /\ proc[c] = "alive"
  /\ TotalEmitted < MaxLines
  /\ emitted' = [emitted EXCEPT ![c] = @ + 1]
  /\ ev' = CastEvent
  /\ UNCHANGED <<isRunning, cmd, stopOnce, doneOnce, console, consoleClosed,
                 doneClosed, proc, sigs, stdin, scanned, mon, rdr, loop,
                 execCmd, restarting, subArr, subLen, chans, crashed,
                 startsSince, delivered, broadcast, missed>>

\* ------------------------------------------------------ Server.readConsole
\* cmd.Wait has returned for c: it closed the read end of the output pipe
PipeClosed(c) ==
  \E g \in Cmds : mon[g].st = "done" /\ mon[g].on = c /\ proc[c] = "exited"

\* bufio.NewScanner(s.stdout): the goroutine reads s.stdout when first scheduled
ReaderBind(g) ==
  /\ ~crashed
  /\ UNCHANGED regvars
  /\ rdr[g].st = "new"
  /\ rdr' = [rdr EXCEPT ![g] = [st |-> "scan", on |-> cmd, k |-> 0]]
  /\ ev' = CastEvent
  /\ UNCHANGED <<isRunning, cmd, stopOnce, doneOnce, doneClosed, proc, sigs,
                 stdin, mon, loop, execCmd, restarting, startsSince>>
  /\ UNCHANGED castvars

\* scanner.Scan() returns true: the next unread line of the pipe
ReaderScan(g) ==
  /\ ~crashed
  /\ UNCHANGED regvars
  /\ rdr[g].st = "scan"
  /\ LET c == rdr[g].on IN
     /\ ~PipeClosed(c)
     /\ scanned[c] < emitted[c]
     /\ scanned' = [scanned EXCEPT ![c] = @ + 1]
     /\ rdr' = [rdr EXCEPT ![g] = [st |-> "push", on |-> c, k |-> scanned[c] + 1]]
  /\ ev' = CastEvent
  /\ UNCHANGED <<isRunning, cmd, stopOnce, doneOnce, console, consoleClosed,
                 doneClosed, proc, sigs, stdin, emitted, mon, loop, execCmd,
                 restarting, subArr, subLen, chans, crashed, startsSince,
                 delivered, broadcast, missed>>

\* select { case s.console <- line: case <-s.done: return }
ReaderPush(g) ==
  /\ ~crashed
  /\ UNCHANGED regvars
  /\ rdr[g].st = "push"
  /\ \/ \* the send case; a send on a closed channel panics
        /\ consoleClosed
        /\ crashed' = TRUE
        /\ UNCHANGED <<console, rdr>>
     \/ /\ ~consoleClosed
        /\ Len(console) < ConsoleCap
        /\ console' = Append(console, [c |-> rdr[g].on, k |-> rdr[g].k])
        /\ rdr' = [rdr EXCEPT ![g].st = "scan"]
        /\ UNCHANGED crashed
     \/ \* the done case: the line in hand is dropped
        /\ doneClosed
        /\ rdr' = [rdr EXCEPT ![g].st = "done"]
        /\ UNCHANGED <<console, crashed>>
  /\ ev' = CastEvent
  /\ UNCHANGED <<isRunning, cmd, stopOnce, doneOnce, consoleClosed,
                 doneClosed, proc, sigs, stdin, emitted, scanned, mon, loop,
                 execCmd, restarting, subArr, subLen, chans, startsSince,
                 delivered, broadcast, missed>>

\* scanner.Scan() returns false (EOF or read error): doneOnce.Do(close(s.console))
ReaderEOF(g) ==
  /\ ~crashed
  /\ UNCHANGED regvars
  /\ rdr[g].st = "scan"
  /\ LET c == rdr[g].on IN
     \/ PipeClosed(c)
     \/ (scanned[c] = emitted[c] /\ proc[c] \in {"exited", "unstarted"})
  /\ consoleClosed' = (consoleClosed \/ ~doneOnce)
  /\ doneOnce' = TRUE
  /\ rdr' = [rdr EXCEPT ![g].st = "done"]
  /\ ev' = CastEvent
  /\ UNCHANGED <<isRunning, cmd, stopOnce, console, doneClosed, proc, sigs,
                 stdin, emitted, scanned, mon, loop, execCmd, restarting,
                 subArr, subLen, chans, crashed, startsSince, delivered,
                 broadcast, missed>>

\* ---------------------------------------- the subscriber slice and its aliases
\* A slice a broadcaster took under the read lock shares the backing array
\* with sm.outputStreams[id] until append allocates a new one.
Reslice(l, arr) ==
  IF l.live THEN [l EXCEPT !.snap = SubSeq(arr, 1, Len(l.snap))] ELSE l

NumChans == Cardinality({ch \in Chans : chans[ch].st # "none"})

\* append's capacity when the array is full (1, 2, 4, 8 for pointer elements)
GrowCap(n) == IF n = 0 THEN 1 ELSE 2 * n

\* ----------------------------------------------- ServerManager.SubscribeOutput
\* a subscription that hands the new channel a line of the history
SubscribeOutputReplay ==
  /\ ~crashed
  /\ UNCHANGED regvars
  /\ NumChans < MaxSubs
  /\ LET ch == NumChans + 1 IN
     /\ chans' = [chans EXCEPT ![ch] = [st |-> "open", n |-> 0]]
     /\ delivered' = [delivered EXCEPT ![ch] =
                        IF broadcast = {} THEN <<>>
                        ELSE <<CHOOSE l \in broadcast : TRUE>>]
     /\ missed' = [missed EXCEPT ![ch] = broadcast]
     /\ subLen' = subLen + 1
     /\ IF subLen < Len(subArr)
          THEN /\ subArr' = [subArr EXCEPT ![subLen + 1] = ch]
               /\ loop' = [g \in Cmds |-> Reslice(loop[g], subArr')]
          ELSE /\ subArr' = SubSeq(subArr, 1, subLen) \o <<ch>>
                              \o [j \in 1..(GrowCap(Len(subArr)) - subLen - 1) |-> 0]
               /\ loop' = [g \in Cmds |-> [loop[g] EXCEPT !.live = FALSE]]
  /\ ev' = CastEvent
  /\ UNCHANGED <<isRunning, cmd, stopOnce, doneOnce, console, consoleClosed,
                 doneClosed, proc, sigs, stdin, emitted, scanned, mon, rdr,
                 execCmd, restarting, crashed, startsSince, broadcast>>

SubscribeOutput ==
  /\ ~crashed
  /\ UNCHANGED regvars
  /\ NumChans < MaxSubs
  /\ LET ch == NumChans + 1 IN
     /\ chans' = [chans EXCEPT ![ch] = [st |-> "open", n |-> 0]]
     /\ missed' = [missed EXCEPT ![ch] = broadcast]
     /\ subLen' = subLen + 1
     /\ IF subLen < Len(subArr)
          THEN /\ subArr' = [subArr EXCEPT ![subLen + 1] = ch]
               /\ loop' = [g \in Cmds |-> Reslice(loop[g], subArr')]
          ELSE /\ subArr' = SubSeq(subArr, 1, subLen) \o <<ch>>
                              \o [j \in 1..(GrowCap(Len(subArr)) - subLen - 1) |-> 0]
               /\ loop' = [g \in Cmds |-> [loop[g] EXCEPT !.live = FALSE]]
  /\ ev' = CastEvent
  /\ UNCHANGED <<isRunning, cmd, stopOnce, doneOnce, console, consoleClosed,
                 doneClosed, proc, sigs, stdin, emitted, scanned, mon, rdr,
                 execCmd, restarting, crashed, startsSince, delivered,
                 broadcast>>

\* --------------------------------------------- ServerManager.UnsubscribeOutput
\* the channels registered for the server: sm.outputStreams[id]
Registered == { subArr[i] : i \in 1..subLen }

\* index of ch in the slice, 0 when it is not registered
IndexOf(ch) ==
  IF \E i \in 1..subLen : subArr[i] = ch
    THEN CHOOSE i \in 1..subLen :
           subArr[i] = ch /\ \A j \in 1..(i - 1) : subArr[j] # ch
    ELSE 0

\* append(streams[:i], streams[i+1:]...) moves the tail down inside the array
RemoveAt(arr, i, n) ==
  [j \in 1..Len(arr) |-> IF j >= i /\ j < n THEN arr[j + 1] ELSE arr[j]]

\* a channel of the caller's own making, which SubscribeOutput never returned
Unregistered == 0

\* a removal that closes the channel it was given without looking it up
UnsubscribeOutputBlind(ch) ==
  /\ ~crashed
  /\ UNCHANGED regvars
  /\ (IF ch = Unregistered THEN TRUE ELSE chans[ch].st # "none")
  /\ LET i == IndexOf(ch) IN
     IF i = 0
       THEN /\ crashed' = (IF ch = Unregistered THEN FALSE
                         ELSE chans[ch].st = "closed")
            /\ UNCHANGED <<subArr, subLen, chans, loop>>
       ELSE /\ subArr' = RemoveAt(subArr, i, subLen)
            /\ subLen' = subLen - 1
            /\ chans' = [chans EXCEPT ![ch].st = "closed"]
            /\ loop' = [g \in Cmds |-> Reslice(loop[g], subArr')]
            /\ UNCHANGED crashed
  /\ ev' = Event("Unsubscribe", "nil", ch, <<>>)
  /\ UNCHANGED <<isRunning, cmd, stopOnce, doneOnce, console, consoleClosed,
                 doneClosed, proc, sigs, stdin, emitted, scanned, mon, rdr,
                 execCmd, restarting, startsSince, delivered,
                 broadcast, missed>>

UnsubscribeOutput(ch) ==
  /\ ~crashed
  /\ UNCHANGED regvars
  /\ (IF ch = Unregistered THEN TRUE ELSE chans[ch].st # "none")
  /\ LET i == IndexOf(ch) IN
     IF i = 0
       THEN UNCHANGED <<subArr, subLen, chans, loop>>
       ELSE /\ subArr' = RemoveAt(subArr, i, subLen)
            /\ subLen' = subLen - 1
            /\ chans' = [chans EXCEPT ![ch].st = "closed"]
            /\ loop' = [g \in Cmds |-> Reslice(loop[g], subArr')]
  /\ ev' = Event("Unsubscribe", "nil", ch, <<>>)
  /\ UNCHANGED <<isRunning, cmd, stopOnce, doneOnce, console, consoleClosed,
                 doneClosed, proc, sigs, stdin, emitted, scanned, mon, rdr,
                 execCmd, restarting, crashed, startsSince, delivered,
                 broadcast, missed>>

\* --------------------------------------------- ServerManager.streamServerOutput
\* for line := range srv.GetConsole(): one line, and the slice under RLock
LoopRecv(g) ==
  /\ ~crashed
  /\ UNCHANGED regvars
  /\ loop[g].st = "recv"
  /\ console # <<>>
  /\ console' = Tail(console)
  /\ IF subLen = 0
       THEN /\ broadcast' = broadcast \cup {Head(console)}
            /\ UNCHANGED loop
       ELSE /\ loop' = [loop EXCEPT ![g] =
                          [st |-> "send", line |-> Head(console),
                           snap |-> SubSeq(subArr, 1, subLen),
                           live |-> TRUE, i |-> 1]]
            /\ UNCHANGED broadcast
  /\ ev' = CastEvent
  /\ UNCHANGED <<isRunning, cmd, stopOnce, doneOnce, consoleClosed,
                 doneClosed, proc, sigs, stdin, emitted, scanned, mon, rdr,
                 execCmd, restarting, subArr, subLen, chans, crashed,
                 startsSince, delivered, missed>>

\* a fan-out that gives the line up at the first full buffer
LoopSendBreak(g) ==
  /\ ~crashed
  /\ UNCHANGED regvars
  /\ loop[g].st = "send"
  /\ LET l == loop[g]
         ch == l.snap[l.i]
     IN
     /\ IF chans[ch].st = "closed"
          THEN \* send on a closed channel panics, in a select too
               /\ crashed' = TRUE
               /\ UNCHANGED <<chans, delivered>>
          ELSE IF chans[ch].n < SubCap
            THEN /\ chans' = [chans EXCEPT ![ch].n = @ + 1]
                 /\ delivered' = [delivered EXCEPT ![ch] = Append(@, l.line)]
                 /\ UNCHANGED crashed
            ELSE \* buffer full: the line is dropped for this subscriber
                 UNCHANGED <<chans, delivered, crashed>>
     /\ IF l.i < Len(l.snap) /\ chans[ch].n < SubCap
          THEN /\ loop' = [loop EXCEPT ![g].i = @ + 1]
               /\ UNCHANGED broadcast
          ELSE /\ loop' = [loop EXCEPT ![g] = [NoLoop EXCEPT !.st = "recv"]]
               /\ broadcast' = broadcast \cup {l.line}
  /\ ev' = CastEvent
  /\ UNCHANGED <<isRunning, cmd, stopOnce, doneOnce, console, consoleClosed,
                 doneClosed, proc, sigs, stdin, emitted, scanned, mon, rdr,
                 execCmd, restarting, subArr, subLen, startsSince, missed>>

\* select { case ch <- line: default: } for the next channel of the slice
LoopSend(g) ==
  /\ ~crashed
  /\ UNCHANGED regvars
  /\ loop[g].st = "send"
  /\ LET l == loop[g]
         ch == l.snap[l.i]
     IN
     /\ IF chans[ch].st = "closed"
          THEN \* send on a closed channel panics, in a select too
               /\ crashed' = TRUE
               /\ UNCHANGED <<chans, delivered>>
          ELSE IF chans[ch].n < SubCap
            THEN /\ chans' = [chans EXCEPT ![ch].n = @ + 1]
                 /\ delivered' = [delivered EXCEPT ![ch] = Append(@, l.line)]
                 /\ UNCHANGED crashed
            ELSE \* buffer full: the line is dropped for this subscriber
                 UNCHANGED <<chans, delivered, crashed>>
     /\ IF l.i < Len(l.snap)
          THEN /\ loop' = [loop EXCEPT ![g].i = @ + 1]
               /\ UNCHANGED broadcast
          ELSE /\ loop' = [loop EXCEPT ![g] = [NoLoop EXCEPT !.st = "recv"]]
               /\ broadcast' = broadcast \cup {l.line}
  /\ ev' = CastEvent
  /\ UNCHANGED <<isRunning, cmd, stopOnce, doneOnce, console, consoleClosed,
                 doneClosed, proc, sigs, stdin, emitted, scanned, mon, rdr,
                 execCmd, restarting, subArr, subLen, startsSince, missed>>

\* an end of the range that closes the channels of the subscribers
LoopEndClosing(g) ==
  /\ ~crashed
  /\ UNCHANGED regvars
  /\ loop[g].st = "recv"
  /\ console = <<>>
  /\ consoleClosed
  /\ loop' = [loop EXCEPT ![g].st = "done"]
  /\ chans' = [ch \in Chans |->
                 IF ch \in { subArr[i] : i \in 1..subLen }
                   THEN [chans[ch] EXCEPT !.st = "closed"] ELSE chans[ch]]
  /\ ev' = CastEvent
  /\ UNCHANGED <<isRunning, cmd, stopOnce, doneOnce, console, consoleClosed,
                 doneClosed, proc, sigs, stdin, emitted, scanned, mon, rdr,
                 execCmd, restarting, subArr, subLen, crashed, startsSince,
                 delivered, broadcast, missed>>

\* the range over the console ends: the channel is closed and drained
LoopEnd(g) ==
  /\ ~crashed
  /\ UNCHANGED regvars
  /\ loop[g].st = "recv"
  /\ console = <<>>
  /\ consoleClosed
  /\ loop' = [loop EXCEPT ![g].st = "done"]
  /\ ev' = CastEvent
  /\ UNCHANGED <<isRunning, cmd, stopOnce, doneOnce, doneClosed, proc, sigs,
                 stdin, mon, rdr, execCmd, restarting, startsSince>>
  /\ UNCHANGED castvars

\* ------------------------------------------------- Handler.GetServerOutputWS
\* for msg := range outputChan: the consumer takes one line from its channel
Consume(ch) ==
  /\ ~crashed
  /\ UNCHANGED regvars
  /\ chans[ch].n > 0
  /\ chans' = [chans EXCEPT ![ch].n = @ - 1]
  /\ ev' = CastEvent
  /\ UNCHANGED <<isRunning, cmd, stopOnce, doneOnce, console, consoleClosed,
                 doneClosed, proc, sigs, stdin, emitted, scanned, mon, rdr,
                 loop, execCmd, restarting, subArr, subLen, crashed,
                 startsSince, delivered, broadcast, missed>>

\* ------------------------------------------------------------- the registry
\* sm.mutex is held for reading by a caller between the two halves of
\* GetServer; the operations that take it for writing wait for it
ReadLocked == \E p \in Callers : gpc[p].st = "miss"

\* the handle whose fields this module follows is the one in the registry
Loaded == servers[KeyOf(TheServer)] = TheHandle

\* the persisted ids that carry a name
IdsNamed(name) == { id \in PersistIds : dbServers[id] = name }

\* ------------------------------------------------------ utils.CreateSymlink
LinkOutcomes == {"ok", "mkdirErr", "symlinkErr"}

\* CreateSymlink(source, destination), with `dest` what the destination
\* holds: a failure of MkdirAll or of Symlink ends the program (log.Fatalf);
\* a destination that exists is removed and the call returns the nil error
\* of Lstat; otherwise the link is made
CreateSymlink(dest, source, out) ==
  IF out = "mkdirErr"
    THEN [link |-> dest, err |-> "Fatal"]
    ELSE IF dest # NoLink
      THEN [link |-> NoLink, err |-> "nil"]
      ELSE IF out = "symlinkErr"
        THEN [link |-> dest, err |-> "Fatal"]
        ELSE [link |-> source, err |-> "nil"]

\* ------------------------------------------------- the environment directory
\* the two links of the environment: server.jar, and mods when the server
\* has a mod pack; the first failure ends it
LinkEnv(e, mods, jarOut, modsOut) ==
  LET j == CreateSymlink(e.jar, JarSource, jarOut)
      e2 == [e EXCEPT !.jar = j.link]
      m == CreateSymlink(e2.mods, ModsSource, modsOut)
  IN IF j.err # "nil" THEN [env |-> e2, err |-> j.err]
     ELSE IF ~mods THEN [env |-> e2, err |-> "nil"]
     ELSE [env |-> [e2 EXCEPT !.mods = m.link], err |-> m.err]

CreateOutcomes == {"ok", "lookupErr", "beginErr", "serverErr", "configErr",
                   "commitErr", "mkdirErr", "jarErr", "modsErr", "scriptErr"}

\* the outcomes in which the transaction was committed
Committed == {"ok", "mkdirErr", "jarErr", "modsErr", "scriptErr"}

\* CreateServer after its commit: MkdirAll, the links, start.sh
ProvisionEnv(e, mods, out) ==
  LET e1 == [e EXCEPT !.dir = TRUE]
      l == LinkEnv(e1, mods, IF out = "jarErr" THEN "symlinkErr" ELSE "ok",
                   IF out = "modsErr" THEN "symlinkErr" ELSE "ok")
  IN IF out = "mkdirErr" THEN [env |-> e, err |-> "MkdirFailed"]
     ELSE IF l.err # "nil" THEN l
     ELSE IF out = "scriptErr" THEN [env |-> l.env, err |-> "ScriptFailed"]
     ELSE [env |-> [l.env EXCEPT !.script = TRUE], err |-> "nil"]

\* the error CreateServer returns when it fails before its commit
CreateError(out) ==
  CASE out = "lookupErr" -> "LookupFailed"
    [] out = "beginErr" -> "BeginFailed"
    [] out = "serverErr" -> "CreateServerFailed"
    [] out = "configErr" -> "CreateConfigFailed"
    [] out = "commitErr" -> "CommitFailed"

\* ServerManager.CreateServer without the check of the name
CreateServerUnchecked(name, mods, out) ==
  LET id == NextId(lastId)
      inserted == out \notin {"lookupErr", "beginErr", "serverErr"}
      p == ProvisionEnv(fsEnv[name], mods, out)
      err == IF out \in Committed THEN p.err ELSE CreateError(out)
  IN
  /\ lastId < MaxId
  /\ lastId' = IF inserted THEN id ELSE lastId
  /\ dbServers' = IF out \in Committed
                    THEN [dbServers EXCEPT ![id] = name]
                    ELSE dbServers
  /\ dbConfigs' = IF out \in Committed THEN dbConfigs \cup {id} ELSE dbConfigs
  /\ fsEnv' = IF out \in Committed
                THEN [fsEnv EXCEPT ![name] = p.env]
                ELSE fsEnv
  /\ crashed' = (err = "Fatal")
  /\ IF err = "nil"
       THEN /\ numHandles < MaxHandles
            /\ numHandles' = numHandles + 1
            /\ servers' = [servers EXCEPT ![KeyOf(id)] = numHandles + 1]
            /\ built' = [built EXCEPT ![KeyOf(id)] = 1]
            /\ model' = [model EXCEPT ![numHandles + 1] = id]
       ELSE UNCHANGED <<numHandles, servers, built, model>>
  /\ ev' = Event("Create", err, IF err = "nil" THEN id ELSE 0, <<name>>)

\* CreateServer that does not look the name up
CreateServerBlind(name, mods, out) ==
  /\ ~crashed
  /\ ~ReadLocked
  /\ CreateServerUnchecked(name, mods, out)
  /\ UNCHANGED <<gpc, who>>
  /\ UNCHANGED lockvars
  /\ UNCHANGED handlevars
  /\ UNCHANGED outvars

\* ServerManager.CreateServer: the name is looked up first; then the server
\* and its configuration are inserted in one transaction; then the directory,
\* the links and the launch script are made; at last the handle is stored.
\* Each step may fail, and a failure returns at once or, in CreateSymlink,
\* ends the program.
CreateServer(name, mods, out) ==
  /\ ~crashed
  /\ ~ReadLocked
  /\ IF out # "lookupErr" /\ IdsNamed(name) # {}
       THEN /\ ev' = Event("Create", "AlreadyExists", 0, <<name>>)
            /\ UNCHANGED <<dbServers, dbConfigs, fsEnv, servers, numHandles,
                           lastId, built, model, crashed>>
       ELSE CreateServerUnchecked(name, mods, out)
  /\ UNCHANGED <<gpc, who>>
  /\ UNCHANGED lockvars
  /\ UNCHANGED handlevars
  /\ UNCHANGED outvars

SetupOutcomes == {"ok", "lookupErr", "configErr", "mkdirErr", "jarErr",
                  "modsErr"}

\* ServerManager.SetupServer: the server and its configuration are fetched
\* by name, the directory and the links are made again, and a new handle
\* replaces the entry of the registry. Whether the configuration has a mod
\* pack is not followed here: `mods` is what the fetch finds.
SetupServer(name, mods, out) ==
  LET ids == IdsNamed(name)
      id == CHOOSE i \in ids : TRUE
      l == LinkEnv([fsEnv[name] EXCEPT !.dir = TRUE], mods,
                   IF out = "jarErr" THEN "symlinkErr" ELSE "ok",
                   IF out = "modsErr" THEN "symlinkErr" ELSE "ok")
      err == IF ids = {} \/ out = "lookupErr" THEN "NotFound"
             ELSE IF id \notin dbConfigs \/ out = "configErr" THEN "ConfigErr"
             ELSE IF out = "mkdirErr" THEN "MkdirFailed"
             ELSE l.err
  IN
  /\ ~crashed
  /\ ~ReadLocked
  /\ fsEnv' = IF err \in {"nil", "Fatal"}
                THEN [fsEnv EXCEPT ![name] = l.env]
                ELSE fsEnv
  /\ crashed' = (err = "Fatal")
  /\ IF err = "nil"
       THEN /\ numHandles < MaxHandles
            /\ numHandles' = numHandles + 1
            /\ servers' = [servers EXCEPT ![KeyOf(id)] = numHandles + 1]
            /\ built' = [built EXCEPT ![KeyOf(id)] = @ + 1]
            /\ model' = [model EXCEPT ![numHandles + 1] = id]
       ELSE UNCHANGED <<numHandles, servers, built, model>>
  /\ ev' = Event("Setup", err, IF ids = {} THEN 0 ELSE id, <<name>>)
  /\ UNCHANGED <<dbServers, dbConfigs, lastId, gpc, who>>
  /\ UNCHANGED lockvars
  /\ UNCHANGED handlevars
  /\ UNCHANGED outvars

\* a record inserted into the store directly, as the handlers' tests do:
\* the registry is not told
DbCreate(name) ==
  /\ ~crashed
  /\ lastId < MaxId
  /\ IdsNamed(name) = {}
  /\ lastId' = NextId(lastId)
  /\ dbServers' = [dbServers EXCEPT ![NextId(lastId)] = name]
  /\ ev' = Event("DbCreate", "nil", NextId(lastId), <<name>>)
  /\ UNCHANGED <<dbConfigs, fsEnv, servers, numHandles, gpc, who, built,
                 model>>
  /\ UNCHANGED lockvars
  /\ UNCHANGED handlevars
  /\ UNCHANGED castvars

\* ServerManager.DeleteServer: an identity without an entry is "not found";
\* otherwise the entry is removed and then the record is deleted, which may
\* fail. Whether the handle is running is not looked at.
DeleteServer(k, db) ==
  /\ ~crashed
  /\ ~ReadLocked
  /\ IF servers[k] = 0
       THEN /\ ev' = Event("Delete", "NotFound", k, <<>>)
            /\ UNCHANGED <<servers, built, dbServers>>
       ELSE /\ servers' = [servers EXCEPT ![k] = 0]
            /\ built' = [built EXCEPT ![k] = 0]
            /\ dbServers' = IF db = "ok" /\ k \in PersistIds
                              THEN [dbServers EXCEPT ![k] = NoName]
                              ELSE dbServers
            /\ ev' = Event("Delete", IF db = "ok" THEN "nil" ELSE "DbError",
                           k, <<>>)
  /\ UNCHANGED <<dbConfigs, fsEnv, numHandles, lastId, gpc, who, model>>
  /\ UNCHANGED lockvars
  /\ UNCHANGED handlevars
  /\ UNCHANGED castvars

\* ServerManager.GetServer, first half: the read lock is taken and the map
\* is read; a caller that finds the entry returns it
GetServerBegin(p, k) ==
  /\ ~crashed
  /\ gpc[p].st = "idle"
  /\ gpc' = [gpc EXCEPT ![p] =
               IF servers[k] # 0
                 THEN [st |-> "done", key |-> k, ret |-> servers[k],
                       err |-> "nil"]
                 ELSE [st |-> "miss", key |-> k, ret |-> 0, err |-> "nil"]]
  /\ ev' = Event("GetServer", IF servers[k] # 0 THEN "nil" ELSE "Miss", k,
                 <<>>)
  /\ UNCHANGED <<dbServers, dbConfigs, fsEnv, servers, numHandles, lastId,
                 who, built, model>>
  /\ UNCHANGED lockvars
  /\ UNCHANGED handlevars
  /\ UNCHANGED castvars

\* the other callers that are about to write the same map
Racing(p) == \E q \in Callers \ {p} : gpc[q].st = "miss"

\* ServerManager.GetServer, second half: the record is looked up; when it is
\* there a handle is constructed from it and stored in the map, under the
\* read lock. Two callers that store at the same time are a data race: the
\* runtime stops the program or one store follows the other.
GetServerLoad(p, db, race) ==
  LET k == gpc[p].key
      found == db = "ok" /\ k \in PersistIds /\ dbServers[k] # NoName
  IN
  /\ ~crashed
  /\ gpc[p].st = "miss"
  /\ race = "fatal" => (found /\ Racing(p))
  /\ IF found
       THEN /\ numHandles < MaxHandles
            /\ numHandles' = numHandles + 1
            /\ built' = [built EXCEPT ![k] = @ + 1]
            /\ model' = [model EXCEPT ![numHandles + 1] = k]
            /\ servers' = [servers EXCEPT ![k] = numHandles + 1]
            /\ crashed' = (race = "fatal")
            /\ gpc' = [gpc EXCEPT ![p] = [st |-> "done", key |-> k,
                                          ret |-> numHandles + 1,
                                          err |-> "nil"]]
            /\ ev' = Event("GetServer", "nil", k, <<>>)
       ELSE /\ gpc' = [gpc EXCEPT ![p] = [st |-> "done", key |-> k,
                                          ret |-> 0,
                                          err |-> IF db = "ok"
                                                    THEN "NotFound"
                                                    ELSE "DbError"]]
            /\ ev' = Event("GetServer", gpc'[p].err, k, <<>>)
            /\ UNCHANGED <<numHandles, servers, built, model, crashed>>
  /\ UNCHANGED <<dbServers, dbConfigs, fsEnv, lastId, who>>
  /\ UNCHANGED lockvars
  /\ UNCHANGED handlevars
  /\ UNCHANGED <<console, consoleClosed, emitted, scanned, subArr, subLen,
                 chans, delivered, broadcast, missed>>

\* The registry: Create and Delete, one call after the other
NextReg ==
  \/ \E name \in Names, mods \in BOOLEAN, out \in CreateOutcomes :
       CreateServer(name, mods, out)
  \/ \E name \in Names : DbCreate(name)
  \/ \E k \in Keys, db \in {"ok", "dbErr"} : DeleteServer(k, db)

SpecReg == Init /\ [][NextReg]_vars

\* Provisioning: Create, and Setup run any number of times on the servers
\* that exist
NextSetup ==
  \/ \E name \in Names, mods \in BOOLEAN, out \in CreateOutcomes :
       CreateServer(name, mods, out)
  \/ \E name \in Names, mods \in BOOLEAN, out \in SetupOutcomes :
       SetupServer(name, mods, out)

SpecSetup == Init /\ [][NextSetup]_vars

\* Lookups by concurrent callers, of servers the registry has loaded, has
\* not yet loaded, or that are not persisted
NextGet ==
  \/ \E name \in Names : DbCreate(name)
  \/ \E k \in Keys, db \in {"ok", "dbErr"} : DeleteServer(k, db)
  \/ \E p \in Callers, k \in Keys : GetServerBegin(p, k)
  \/ \E p \in Callers, db \in {"ok", "dbErr"}, race \in {"store", "fatal"} :
       GetServerLoad(p, db, race)

SpecGet == Init /\ [][NextGet]_vars

\* starts of the followed server in the specification of its removal
MaxCmdDel == 1

\* Delete over the lifecycle of the followed server: the operations of the
\* lifecycle find the handle in the registry or return "not found"
NextDel ==
  \/ (NumCmd < MaxCmdDel /\ Loaded /\ StartServer)
  \/ (Loaded /\ StopServer)
  \/ \E c \in Cmds : ProcExit(c)
  \/ \E g \in Cmds : MonitorWait(g)
  \/ \E g \in Cmds : MonitorBody(g)
  \/ \E k \in Keys, db \in {"ok", "dbErr"} : DeleteServer(k, db)

SpecDel == Init /\ [][NextDel]_vars

\* ------------------------------------------------------------ authorization
\* a request arrives: the middleware puts the user id of its token into the
\* context of the request
Request(u) ==
  /\ ~crashed
  /\ who # u
  /\ who' = u
  /\ ev' = Event("Request", "nil", u, <<>>)
  /\ UNCHANGED <<dbServers, dbConfigs, fsEnv, servers, numHandles, lastId,
                 gpc, built, model>>
  /\ UNCHANGED lockvars
  /\ UNCHANGED handlevars
  /\ UNCHANGED castvars

\* the operations whose handler hands the user id of the request to the
\* manager
OwnerOps == {"Start", "Stop", "Delete"}

\* the user of the request owns the server
Authorized == who = Owner

\* an operation that is given the user id refuses a user who is not the owner
Forbidden(op) ==
  /\ ~crashed
  /\ ~Authorized
  /\ ev' = Event(op, "Forbidden", KeyOf(TheServer), <<>>)
  /\ UNCHANGED regvars
  /\ UNCHANGED handlevars
  /\ UNCHANGED castvars

\* starts of the followed server in the specification of the requests
MaxCmdAuth == 1

\* Requests of the owner and of another user for the followed server.
\* The handlers of Start, Stop and Delete pass the user id on; the handlers
\* of Restart and SendCommand do not read it.
NextAuth ==
  \/ \E u \in Users : Request(u)
  \/ \E op \in OwnerOps : Forbidden(op)
  \/ (Authorized /\ Loaded /\ NumCmd < MaxCmdAuth /\ StartServer)
  \/ (Authorized /\ Loaded /\ StopServer)
  \/ (Authorized /\ \E db \in {"ok", "dbErr"} :
                      DeleteServer(KeyOf(TheServer), db))
  \/ (Loaded /\ RestartStop)
  \/ (Loaded /\ RestartStart)
  \/ (Loaded /\ SendCommand)

SpecAuth == Init /\ [][NextAuth]_vars

\* ----------------------------------------------------------------- the locks
\* The operations of two handles at the grain of their locks: which call
\* holds sm.mutex, sm.streamMutex and s.mutex at each point of its body.
LockEvent == Event("Call", "nil", 0, <<>>)

\* what a step of a call leaves alone
lockframe == <<dbServers, dbConfigs, fsEnv, servers, numHandles, lastId, gpc,
               who, built, model, handlevars, castvars,
               fleetvars>>

ManagerOps == {"Start", "Stop", "Restart", "SendCommand"}
HandleOps == {"IsRunning"}
\* CreateServer, DeleteServer and GetServer take sm.mutex and no other lock
RegistryOps == {"Create", "Delete", "GetServer"}
\* SubscribeOutput, UnsubscribeOutput and the broadcaster's read of the
\* subscriber slice take sm.streamMutex and no other lock
StreamOps == {"Subscribe", "Unsubscribe", "Broadcast"}
\* the body of monitorProcess, after a process is gone, takes s.mutex
MonitorOps == {"Monitor"}
AllOps == ManagerOps \cup HandleOps \cup RegistryOps \cup StreamOps
            \cup MonitorOps

\* StartServer, CreateServer and DeleteServer take sm.mutex.Lock(); Stop,
\* Restart, SendCommand and GetServer take sm.mutex.RLock(). SubscribeOutput
\* and UnsubscribeOutput take sm.streamMutex.Lock(), the broadcaster RLock()
WriterOps == {"Start", "Create", "Delete", "Subscribe", "Unsubscribe"}

HoldsSm(p) == smMutex.w = p \/ p \in smMutex.r

\* a call has called Lock and waits: sync.RWMutex then admits no new reader
WriterPending == \E q \in Procs : call[q].pc = "smLock" /\ call[q].op \in WriterOps

\* the call can take sm.mutex now
SmFree(p) ==
  IF call[p].op \in WriterOps
    THEN smMutex.w = 0 /\ smMutex.r = {}
    ELSE smMutex.w = 0 /\ ~WriterPending

\* the call is inside GetConfig, cmd.Start or io.WriteString
InProcessIO(p) == call[p].pc \in {"config", "spawn", "write"}

HoldsSt(p) == streamMutex.w = p \/ p \in streamMutex.r

StWriterPending ==
  \E q \in Procs : call[q].pc = "stLock" /\ call[q].op \in WriterOps

\* the call can take sm.streamMutex now
StFree(p) ==
  IF call[p].op \in WriterOps
    THEN streamMutex.w = 0 /\ streamMutex.r = {}
    ELSE streamMutex.w = 0 /\ ~StWriterPending

\* a request calls an operation of the manager, or IsRunning of a handle
Call(p, op, id) ==
  /\ ~crashed
  /\ call[p].pc = "idle"
  /\ call' = [call EXCEPT ![p] =
                [op |-> op, id |-> id,
                 pc |-> IF op \in HandleOps \cup MonitorOps THEN "sLock"
                        ELSE IF op \in StreamOps THEN "stLock"
                        ELSE "smLock"]]
  /\ ev' = LockEvent
  /\ UNCHANGED <<smMutex, sMutex, running, pipeFull, streamMutex>>
  /\ UNCHANGED lockframe

\* sm.mutex.Lock() or RLock() returns; the handle is found in sm.servers
SmLock(p) ==
  /\ ~crashed
  /\ call[p].pc = "smLock"
  /\ SmFree(p)
  /\ smMutex' = IF call[p].op \in WriterOps
                  THEN [smMutex EXCEPT !.w = p]
                  ELSE [smMutex EXCEPT !.r = @ \cup {p}]
  /\ call' = [call EXCEPT ![p].pc =
                IF call[p].op \in RegistryOps THEN "ret" ELSE "sLock"]
  /\ ev' = LockEvent
  /\ UNCHANGED <<sMutex, running, pipeFull, streamMutex>>
  /\ UNCHANGED lockframe

\* s.mutex.Lock() returns and the operation looks at s.isRunning
SLock(p) ==
  LET c == call[p] IN
  /\ ~crashed
  /\ c.pc = "sLock"
  /\ sMutex[c.id] = 0
  /\ sMutex' = [sMutex EXCEPT ![c.id] = p]
  /\ call' = [call EXCEPT ![p].pc =
                CASE c.op \in {"Start", "RestartStart"} ->
                       IF running[c.id] THEN "ret" ELSE "config"
                  [] c.op \in {"Stop", "Restart"} ->
                       IF running[c.id] THEN "signal" ELSE "ret"
                  [] c.op = "SendCommand" ->
                       IF running[c.id] THEN "write" ELSE "ret"
                  [] c.op = "IsRunning" -> "ret"
                  [] c.op = "Monitor" -> "clear"]
  /\ ev' = LockEvent
  /\ UNCHANGED <<smMutex, running, pipeFull, streamMutex>>
  /\ UNCHANGED lockframe

\* Server.Start: s.GetConfig() reads the configuration from the store
FetchConfig(p, db) ==
  /\ ~crashed
  /\ call[p].pc = "config"
  /\ call' = [call EXCEPT ![p].pc = IF db = "ok" THEN "spawn" ELSE "ret"]
  /\ ev' = LockEvent
  /\ UNCHANGED <<smMutex, sMutex, running, pipeFull, streamMutex>>
  /\ UNCHANGED lockframe

\* Server.Start: s.cmd.Start() and s.isRunning = true
Spawn(p, spawn) ==
  /\ ~crashed
  /\ call[p].pc = "spawn"
  /\ running' = IF spawn = "ok"
                  THEN [running EXCEPT ![call[p].id] = TRUE]
                  ELSE running
  /\ pipeFull' = [pipeFull EXCEPT ![call[p].id] = FALSE]
  /\ call' = [call EXCEPT ![p].pc = "ret"]
  /\ ev' = LockEvent
  /\ UNCHANGED <<smMutex, sMutex, streamMutex>>
  /\ UNCHANGED lockframe

\* a Restart that enters Start with s.mutex of Stop still held
SignalHolding(p) ==
  LET c == call[p] IN
  /\ ~crashed
  /\ c.pc = "signal"
  /\ running' = [running EXCEPT ![c.id] = FALSE]
  /\ IF c.op = "Restart"
       THEN /\ call' = [call EXCEPT ![p] = [c EXCEPT !.op = "RestartStart",
                                                   !.pc = "sLock"]]
            /\ UNCHANGED sMutex
       ELSE /\ call' = [call EXCEPT ![p].pc = "ret"]
            /\ UNCHANGED sMutex
  /\ ev' = LockEvent
  /\ UNCHANGED <<smMutex, pipeFull, streamMutex>>
  /\ UNCHANGED lockframe

\* Server.Stop: the signal and s.isRunning = false; Restart then leaves
\* Stop, which unlocks s.mutex, and enters Start
Signal(p) ==
  LET c == call[p] IN
  /\ ~crashed
  /\ c.pc = "signal"
  /\ running' = [running EXCEPT ![c.id] = FALSE]
  /\ IF c.op = "Restart"
       THEN /\ call' = [call EXCEPT ![p] = [c EXCEPT !.op = "RestartStart",
                                                   !.pc = "sLock"]]
            /\ sMutex' = [sMutex EXCEPT ![c.id] = 0]
       ELSE /\ call' = [call EXCEPT ![p].pc = "ret"]
            /\ UNCHANGED sMutex
  /\ ev' = LockEvent
  /\ UNCHANGED <<smMutex, pipeFull, streamMutex>>
  /\ UNCHANGED lockframe

\* Server.SendCommand: io.WriteString returns once the pipe takes the bytes
Write(p) ==
  /\ ~crashed
  /\ call[p].pc = "write"
  /\ ~pipeFull[call[p].id]
  /\ call' = [call EXCEPT ![p].pc = "ret"]
  /\ ev' = LockEvent
  /\ UNCHANGED <<smMutex, sMutex, running, pipeFull, streamMutex>>
  /\ UNCHANGED lockframe

\* sm.streamMutex.Lock() or RLock() returns; the body touches the slice only
StLock(p) ==
  /\ ~crashed
  /\ call[p].pc = "stLock"
  /\ StFree(p)
  /\ streamMutex' = IF call[p].op \in WriterOps
                      THEN [streamMutex EXCEPT !.w = p]
                      ELSE [streamMutex EXCEPT !.r = @ \cup {p}]
  /\ call' = [call EXCEPT ![p].pc = "ret"]
  /\ ev' = LockEvent
  /\ UNCHANGED <<smMutex, sMutex, running, pipeFull>>
  /\ UNCHANGED lockframe

\* monitorProcess under s.mutex: s.isRunning = false
Clear(p) ==
  /\ ~crashed
  /\ call[p].pc = "clear"
  /\ running' = [running EXCEPT ![call[p].id] = FALSE]
  /\ call' = [call EXCEPT ![p].pc = "ret"]
  /\ ev' = LockEvent
  /\ UNCHANGED <<smMutex, sMutex, pipeFull, streamMutex>>
  /\ UNCHANGED lockframe

\* the operation returns: the deferred Unlock of s.mutex runs, then the
\* deferred Unlock or RUnlock of sm.mutex or of sm.streamMutex
Return(p) ==
  LET c == call[p] IN
  /\ ~crashed
  /\ c.pc = "ret"
  /\ sMutex' = [id \in Idents |-> IF sMutex[id] = p THEN 0 ELSE sMutex[id]]
  /\ smMutex' = [w |-> IF smMutex.w = p THEN 0 ELSE smMutex.w,
                 r |-> smMutex.r \ {p}]
  /\ streamMutex' = [w |-> IF streamMutex.w = p THEN 0 ELSE streamMutex.w,
                     r |-> streamMutex.r \ {p}]
  /\ call' = [call EXCEPT ![p] = NoOp]
  /\ ev' = LockEvent
  /\ UNCHANGED <<running, pipeFull>>
  /\ UNCHANGED lockframe

\* the process stops reading its input and the pipe fills up, or it reads
\* again
Stall(id) ==
  /\ ~crashed
  /\ running[id]
  /\ pipeFull' = [pipeFull EXCEPT ![id] = ~@]
  /\ ev' = LockEvent
  /\ UNCHANGED <<smMutex, sMutex, call, running, streamMutex>>
  /\ UNCHANGED lockframe

NextLock ==
  \/ \E p \in Procs, op \in ManagerOps \cup HandleOps, id \in Idents :
       Call(p, op, id)
  \/ \E p \in Procs : SmLock(p)
  \/ \E p \in Procs : SLock(p)
  \/ \E p \in Procs, db \in {"ok", "dbErr"} : FetchConfig(p, db)
  \/ \E p \in Procs, spawn \in {"ok", "spawnErr"} : Spawn(p, spawn)
  \/ \E p \in Procs : Signal(p)
  \/ \E p \in Procs : Write(p)
  \/ \E p \in Procs : Return(p)
  \/ \E id \in Idents : Stall(id)

SpecLock == Init /\ [][NextLock]_vars

\* the operations whose locking does not depend on the identity
IdentFree == RegistryOps \cup StreamOps

\* the calls are interchangeable: a request is served as the first call
\* that is idle
FirstIdle(p) ==
  /\ call[p].pc = "idle"
  /\ \A q \in Procs : q < p => call[q].pc # "idle"

\* Every operation that takes a lock, the monitor and the broadcaster
\* included
NextLockAll ==
  \/ \E p \in Procs, op \in AllOps \ HandleOps, id \in Idents :
       /\ FirstIdle(p)
       /\ op \in IdentFree => id = 1
       /\ Call(p, op, id)
  \/ \E p \in Procs : SmLock(p)
  \/ \E p \in Procs : StLock(p)
  \/ \E p \in Procs : SLock(p)
  \/ \E p \in Procs, db \in {"ok", "dbErr"} : FetchConfig(p, db)
  \/ \E p \in Procs, spawn \in {"ok", "spawnErr"} : Spawn(p, spawn)
  \/ \E p \in Procs : Signal(p)
  \/ \E p \in Procs : Clear(p)
  \/ \E p \in Procs : Write(p)
  \/ \E p \in Procs : Return(p)
  \/ \E id \in Idents :
       \* the pipe matters to a write in progress only
       /\ \E p \in Procs : call[p].pc = "write" /\ call[p].id = id
       /\ Stall(id)

SpecLockAll == Init /\ [][NextLockAll]_vars

\* ---------------------------------------------------------- specifications
\* The lifecycle: Start, Stop, Restart, the process and its monitor
Next ==
  \/ StartServer
  \/ StopServer
  \/ RestartStop
  \/ RestartStart
  \/ \E c \in Cmds : ProcExit(c)
  \/ \E g \in Cmds : MonitorWait(g)
  \/ \E g \in Cmds : MonitorBody(g)

Spec == Init /\ [][Next]_vars

\* The lifecycle with commands written to the input stream
NextCmd ==
  \/ (NumCmd < MaxCmdIO /\ StartServer)
  \/ StopServer
  \/ SendCommand
  \/ \E c \in Cmds : ProcExit(c)
  \/ \E g \in Cmds : MonitorWait(g)
  \/ \E g \in Cmds : MonitorBody(g)

SpecCmd == Init /\ [][NextCmd]_vars

\* The retried start: Start calls that fail and succeed while the
\* executable command of the configuration is replaced
NextRetry ==
  \/ (NumCmd < MaxCmdRetry /\ StartServer)
  \/ StopServer
  \/ \E command \in ExecCommands, db \in {"ok", "dbErr"} :
       UpdateServerCommand(command, db)
  \/ \E c \in Cmds : ProcExit(c)
  \/ \E g \in Cmds : MonitorWait(g)
  \/ \E g \in Cmds : MonitorBody(g)

SpecRetry == Init /\ [][NextRetry]_vars

\* The console over the lifecycle: the processes' output, the readers and
\* the broadcaster loops of several starts, and a subscriber
NextCast ==
  \/ (NumCmd < MaxCmdCast /\ StartServer)
  \/ StopServer
  \/ \E c \in Cmds : ProcExit(c)
  \/ \E g \in Cmds : MonitorWait(g)
  \/ \E g \in Cmds : MonitorBody(g)
  \/ \E c \in Cmds : Emit(c)
  \/ \E g \in Cmds : ReaderBind(g)
  \/ \E g \in Cmds : ReaderScan(g)
  \/ \E g \in Cmds : ReaderPush(g)
  \/ \E g \in Cmds : ReaderEOF(g)
  \/ (NumChans < MaxSubsCast /\ SubscribeOutput)
  \/ \E g \in Cmds : LoopRecv(g)
  \/ \E g \in Cmds : LoopSend(g)
  \/ \E g \in Cmds : LoopEnd(g)
  \/ \E ch \in Chans : Consume(ch)

SpecCast == Init /\ [][NextCast]_vars

\* The subscribers: channels that come and go while the process of a start
\* writes lines and the broadcaster loop of that start fans them out
NextSubs ==
  \/ (NumCmd < MaxCmdSubs /\ StartServer)
  \/ \E c \in Cmds : Emit(c)
  \/ \E g \in Cmds : ReaderBind(g)
  \/ \E g \in Cmds : ReaderScan(g)
  \/ \E g \in Cmds : ReaderPush(g)
  \/ SubscribeOutput
  \/ \E ch \in Registered : UnsubscribeOutput(ch)
  \/ \E g \in Cmds : LoopRecv(g)
  \/ \E g \in Cmds : LoopSend(g)
  \/ \E ch \in Chans : Consume(ch)

SpecSubs == Init /\ [][NextSubs]_vars

\* UnsubscribeOutput as any caller may use it: on any channel, registered
\* or not, any number of times, while lines are fanned out
NextUnsub ==
  \/ (NumCmd < MaxCmdSubs /\ StartServer)
  \/ \E c \in Cmds : Emit(c)
  \/ \E g \in Cmds : ReaderBind(g)
  \/ \E g \in Cmds : ReaderScan(g)
  \/ \E g \in Cmds : ReaderPush(g)
  \/ SubscribeOutput
  \/ \E ch \in Chans \cup {Unregistered} : UnsubscribeOutput(ch)
  \/ \E g \in Cmds : LoopRecv(g)
  \/ \E g \in Cmds : LoopSend(g)

SpecUnsub == Init /\ [][NextUnsub]_vars

\* The end of a start: the process exits, the reader meets the end of the
\* stream, the console closes and the broadcaster loop ends, with
\* subscribers registered
NextEnd ==
  \/ (NumCmd < MaxCmdSubs /\ StartServer)
  \/ \E c \in Cmds : ProcExit(c)
  \/ \E c \in Cmds : Emit(c)
  \/ \E g \in Cmds : ReaderBind(g)
  \/ \E g \in Cmds : ReaderScan(g)
  \/ \E g \in Cmds : ReaderPush(g)
  \/ \E g \in Cmds : ReaderEOF(g)
  \/ SubscribeOutput
  \/ \E ch \in Registered : UnsubscribeOutput(ch)
  \/ \E g \in Cmds : LoopRecv(g)
  \/ \E g \in Cmds : LoopSend(g)
  \/ \E g \in Cmds : LoopEnd(g)

SpecEnd == Init /\ [][NextEnd]_vars

\* starts in the specifications with fair goroutines
MaxCmdLive == 2

\* The lifecycle with processes that end by themselves; a goroutine that can
\* run is run in the end
NextCrash ==
  \/ (NumCmd < MaxCmdLive /\ StartServer)
  \/ StopServer
  \/ \E c \in Cmds : ProcExit(c)
  \/ \E g \in Cmds : MonitorWait(g)
  \/ \E g \in Cmds : MonitorBody(g)

SpecCrash ==
  /\ Init
  /\ [][NextCrash]_vars
  /\ \A g \in Cmds : WF_vars(MonitorWait(g)) /\ WF_vars(MonitorBody(g))

\* ------------------------------------------------------------------ claims
LifecycleOps == {"Start", "RestartStart"}
StopOps == {"Stop", "RestartStop"}

\* C1: at most one process spawned for the identity is alive at any time,
\* the interval between Stop's return and the process's exit included.
C1_AtMostOneLiveProcess == Cardinality(Alive) <= 1

\* C2: once a Start has succeeded and neither a Stop nor a process exit has
\* happened since, no further Start returns without error and no further
\* process is spawned: exactly one call succeeds, the others are refused.
C2_SecondStartAlreadyRunning == startsSince <= 1

\* C3: the handle is reusable over any number of cycles: while the process of
\* the last successful Start is alive and nothing stopped it, SendCommand and
\* Stop succeed, and the Start that follows a successful Stop is not refused.
C3_CyclesSucceed ==
  [][ /\ (ev'.op \in {"SendCommand", "Stop"} /\ startsSince >= 1
             /\ cmd # 0 /\ proc[cmd] = "alive")
        => ev'.err = "nil"
      /\ (ev'.op = "Start" /\ ev.op = "Stop" /\ ev.err = "nil")
        => ev'.err \notin {"AlreadyRunning", "NotRunning"} ]_vars

\* C4: in every Start generation the first successful Stop sends the
\* interrupt to that generation's process exactly once.
C4_StopSignalsOncePerGeneration ==
  (ev.op \in StopOps /\ ev.err = "nil") => sigs[ev.c] = 1

\* C5: Stop on a handle that is not running (never started, stopped, or
\* whose process exit was seen) returns NotRunning, sends no signal and
\* leaves the handle unchanged.
C5_StopWhenNotRunning ==
  [][ (ev'.op = "Stop" /\ ~isRunning)
        => /\ ev'.err = "NotRunning"
           /\ UNCHANGED <<isRunning, cmd, stopOnce, doneOnce, proc, sigs,
                          stdin, mon>> ]_vars

C5_Witness ==
  /\ ev.op = "Stop" /\ ev.err = "NotRunning"
  /\ cmd # 0 /\ proc[cmd] = "exited" /\ mon[cmd].st = "done"

\* C6: a successful Stop returns without waiting for the process (the step
\* leaves every process as it was) and the handle reports not running from
\* that moment, also while the signalled process is alive.
C6_StopIsOptimistic ==
  [][ (ev'.op = "Stop" /\ ev'.err = "nil")
        => (~isRunning' /\ proc' = proc) ]_vars

C6_Witness ==
  /\ ev.op = "Stop" /\ ev.err = "nil"
  /\ proc[ev.c] = "alive" /\ sigs[ev.c] = 1 /\ ~isRunning

\* C7: Restart is Stop, then Start; when its Stop fails because the handle
\* is not running, Restart returns NotRunning, attempts no Start, spawns
\* nothing and changes nothing.
C7_RestartPropagatesStopFailure ==
  [][ /\ (ev'.op = "RestartStop" /\ ~isRunning)
        => /\ ev'.err = "NotRunning"
           /\ restarting' = restarting
           /\ UNCHANGED <<isRunning, cmd, stopOnce, doneOnce, proc, sigs,
                          stdin, mon>>
      /\ (ev'.op = "RestartStop" /\ isRunning)
        => (ev'.err = "nil" /\ restarting' = restarting + 1)
      /\ (ev'.op = "RestartStart")
        => (restarting > 0 /\ restarting' = restarting - 1) ]_vars

C7_Witness ==
  /\ ev.op = "RestartStop" /\ ev.err = "NotRunning"
  /\ restarting = 0 /\ NumCmd >= 1

\* C8: SendCommand(text) on a handle that is not running returns NotRunning
\* and writes nothing; on a running handle it appends text and one newline
\* to the input stream of the current process (or fails with WriteFailed when
\* the stream is gone); it never changes the running flag.
C8_SendCommandWrites ==
  [][ (ev'.op = "SendCommand")
        => /\ isRunning' = isRunning
           /\ IF ~isRunning
                THEN ev'.err = "NotRunning" /\ stdin' = stdin
                ELSE \/ /\ ev'.err = "nil"
                        /\ proc[cmd] = "alive"
                        /\ stdin' = [stdin EXCEPT
                                       ![cmd] = @ \o ev'.arg \o <<"\n">>]
                     \/ /\ ev'.err = "WriteFailed"
                        /\ proc[cmd] # "alive"
                        /\ stdin' = stdin ]_vars

C8_Witness ==
  /\ ev.op = "SendCommand" /\ ev.err = "nil"
  /\ cmd = 2 /\ proc[1] = "alive"
  /\ stdin[2] = <<"s", "\n", "s", "\n">> /\ stdin[1] = <<>>

\* C9: the lines a subscriber receives are lines the process emitted, in
\* emission order: of two lines of one process, the one emitted first is
\* never received after the other, and no line is received twice.
C9_DeliveredInEmissionOrder ==
  \A ch \in Chans :
    \A i, j \in 1..Len(delivered[ch]) :
      (i < j /\ delivered[ch][i].c = delivered[ch][j].c)
        => delivered[ch][i].k < delivered[ch][j].k

\* C10: a subscriber never receives a line whose broadcast was over when
\* its SubscribeOutput call returned.
C10_NoReplay ==
  \A ch \in Chans :
    \A i \in 1..Len(delivered[ch]) : delivered[ch][i] \notin missed[ch]

\* a subscriber that joined after a line was broadcast has received a later one
C10_Witness ==
  \E ch \in Chans :
    /\ chans[ch].st = "open"
    /\ missed[ch] # {}
    /\ delivered[ch] # <<>>
    /\ \A i \in 1..Len(delivered[ch]) : delivered[ch][i] \in broadcast

\* a step of streamServerOutput's inner loop: the broadcaster g has offered
\* its line to the channel at its index
SendStep(g) ==
  /\ loop[g].st = "send"
  /\ (loop'[g].st # "send" \/ loop'[g].i # loop[g].i)

\* C11: a subscriber whose buffer is full never blocks the broadcaster: the
\* line is dropped for that subscriber only, a subscriber with free space
\* receives it, and the broadcaster goes on to the next channel and, after
\* the last one, to the next line.
C11_DropOnFull ==
  [][ \A g \in Cmds :
        (SendStep(g) /\ chans[loop[g].snap[loop[g].i]].st = "open") =>
          LET l == loop[g]
              ch == l.snap[l.i]
          IN /\ ~crashed'
             /\ delivered'[ch] = IF chans[ch].n < SubCap
                                   THEN Append(delivered[ch], l.line)
                                   ELSE delivered[ch]
             /\ \A o \in Chans \ {ch} :
                  delivered'[o] = delivered[o] /\ chans'[o] = chans[o]
             /\ IF l.i < Len(l.snap)
                  THEN /\ loop'[g].st = "send"
                       /\ loop'[g].i = l.i + 1
                       /\ loop'[g].line = l.line
                  ELSE /\ loop'[g].st = "recv"
                       /\ l.line \in broadcast' ]_vars

\* a slow subscriber lost a line at its full buffer and the subscriber
\* behind it in the slice received that line
C11_Witness ==
  \E a, b \in Chans :
    /\ a # b
    /\ subLen = 2 /\ subArr[1] = a /\ subArr[2] = b
    /\ chans[a].st = "open" /\ chans[b].st = "open"
    /\ chans[a].n = SubCap
    /\ Len(delivered[a]) = 1
    /\ Len(delivered[b]) = 2
    /\ delivered[b][1] = delivered[a][1]
    /\ delivered[b][2] \in broadcast

\* C12: UnsubscribeOutput on a channel that is not registered (a second call
\* on the same channel, or a channel that never was registered) does not
\* panic, closes nothing and leaves every subscriber registered and open;
\* on a registered channel it removes and closes that channel only.
C12_UnsubscribeIdempotent ==
  [][ ev'.op = "Unsubscribe" =>
        LET ch == ev'.c IN
        /\ crashed' = crashed
        /\ IF ch \in Registered
             THEN /\ chans'[ch].st = "closed"
                  /\ Registered' = Registered \ {ch}
                  /\ \A o \in Chans \ {ch} : chans'[o] = chans[o]
             ELSE /\ chans' = chans
                  /\ Registered' = Registered
                  /\ subLen' = subLen ]_vars

\* the last step was UnsubscribeOutput on channel 1, which had been removed
\* before channel 2 was subscribed (channel 2 took its place in the array):
\* a second call, and channel 2 is still registered and open
C12_Witness ==
  /\ ev.op = "Unsubscribe" /\ ev.c = 1
  /\ chans[1].st = "closed"
  /\ subArr = <<2>> /\ subLen = 1
  /\ chans[2].st = "open"
  /\ ~crashed

\* C13: a subscriber channel is closed, and removed from the slice, only by
\* UnsubscribeOutput on that channel: no other step (the exit of the
\* process, the close of the console, the end of the broadcaster loop)
\* closes or removes a channel.
C13_ClosedOnlyByUnsubscribe ==
  [][ \A ch \in Chans :
        ((chans[ch].st = "open" /\ chans'[ch].st # "open")
           \/ (ch \in Registered /\ ch \notin Registered'))
          => (ev'.op = "Unsubscribe" /\ ev'.c = ch) ]_vars

\* the process has exited, the console is closed and drained, the
\* broadcaster loop has ended, and a subscriber is still registered and open
C13_Witness ==
  \E g \in Cmds, ch \in Chans :
    /\ proc[g] = "exited"
    /\ consoleClosed /\ console = <<>>
    /\ loop[g].st = "done"
    /\ chans[ch].st = "open" /\ ch \in Registered
    /\ delivered[ch] # <<>>

\* C20: a Start that fails with InvalidCommand or SpawnFailed leaves the
\* handle not running and starts no line-reader, no monitor, no broadcaster
\* loop and no process; and a Start on a handle that is not running, with a
\* command that has a field, is rejected neither as AlreadyRunning nor as
\* InvalidCommand: it succeeds unless the configuration or the spawn fails.
C20_FailedStartIsRetryable ==
  [][ /\ (ev'.op = "Start" /\ ev'.err \in {"InvalidCommand", "SpawnFailed"})
          => /\ ~isRunning'
             /\ rdr' = rdr /\ mon' = mon /\ loop' = loop
             /\ Alive' = Alive
      /\ (ev'.op = "Start" /\ ~isRunning /\ Len(Fields(execCmd)) > 0)
          => ev'.err \in {"nil", "ConfigErr", "SpawnFailed"} ]_vars

\* the spawn of the first command failed and started nothing; the next
\* Start succeeded and started its reader, its monitor and its loop
C20_Witness ==
  /\ ev.op = "Start" /\ ev.err = "nil" /\ ev.c = 2
  /\ proc[1] = "unstarted" /\ proc[2] = "alive"
  /\ rdr[1].st = "none" /\ mon[1].st = "none" /\ loop[1].st = "none"
  /\ rdr[2].st = "new" /\ mon[2].st = "new" /\ loop[2].st = "recv"
  /\ isRunning

\* the persisted records and the registry
storevars == <<dbServers, dbConfigs, fsEnv, servers, numHandles, lastId,
               built>>

\* C14: Create with a name that is already persisted fails with
\* AlreadyExists (or with the failure of the lookup itself) and leaves the
\* persisted records and the map of handles as they were; AlreadyExists is
\* returned for no other reason; and however the calls follow one another,
\* no name is ever persisted twice.
C14_DuplicateNameRejected ==
  [][ /\ ev'.op = "Create" =>
           LET name == ev'.arg[1] IN
           /\ IdsNamed(name) # {} =>
                /\ ev'.err \in {"AlreadyExists", "LookupFailed"}
                /\ UNCHANGED storevars
           /\ ev'.err = "AlreadyExists" => IdsNamed(name) # {}
      /\ \A n \in Names : Cardinality({ id \in PersistIds :
                                          dbServers'[id] = n }) <= 1
    ]_vars

\* a second Create of "b" was rejected after the first had persisted it
C14_Witness ==
  /\ ev = Event("Create", "AlreadyExists", 0, <<"b">>)
  /\ IdsNamed("b") = {2}
  /\ servers[KeyOf(2)] # 0
  /\ 2 \in dbConfigs

\* C15: Create is all-or-nothing: a Create that returns an error leaves no
\* server record, no configuration and no handle behind that were not there
\* before; a Create that succeeds leaves the record, its configuration, the
\* provisioned directory and a handle in the registry.
C15_CreateAllOrNothing ==
  [][ ev'.op = "Create" =>
        IF ev'.err = "nil"
          THEN /\ dbServers'[ev'.c] = ev'.arg[1]
               /\ ev'.c \in dbConfigs'
               /\ fsEnv'[ev'.arg[1]].dir
               /\ fsEnv'[ev'.arg[1]].jar = JarSource
               /\ fsEnv'[ev'.arg[1]].script
               /\ servers'[KeyOf(ev'.c)] # 0
          ELSE UNCHANGED <<dbServers, dbConfigs, servers>>
    ]_vars

\* C16: Delete on a server whose handle reports running fails with
\* ServerRunning and removes neither the entry of the registry nor the
\* persisted record.
C16_RunningServerNotDeleted ==
  [][ (ev'.op = "Delete" /\ ev'.c = KeyOf(TheServer) /\ Loaded /\ isRunning)
        => /\ ev'.err = "ServerRunning"
           /\ UNCHANGED <<servers, dbServers>>
    ]_vars

\* C17: a Delete that returns success leaves neither the persisted record
\* nor an entry of the registry for the identity, and a persisted server is
\* never answered with "not found", whether or not its handle had been
\* loaded into the registry.
C17_DeleteRemovesRecordAndHandle ==
  [][ ev'.op = "Delete" =>
        LET k == ev'.c IN
        /\ ev'.err = "nil" => (servers'[k] = 0 /\ dbServers'[k] = NoName)
        /\ dbServers[k] # NoName => ev'.err # "NotFound"
    ]_vars

\* C19: one handle per identity: between two removals of an identity from
\* the registry its handle is constructed from the persisted record at most
\* once, so that all lookups, concurrent first lookups included, return the
\* same object; and a lookup of an identity without a persisted record
\* fails and stores nothing.
C19_OneHandlePerIdentity ==
  [][ /\ \A k \in Keys : built'[k] <= 1
      /\ \A p \in Callers :
           (gpc[p].st = "miss" /\ gpc'[p].st = "done"
              /\ dbServers[gpc[p].key] = NoName)
             => /\ gpc'[p].err \in {"NotFound", "DbError"}
                /\ UNCHANGED <<servers, numHandles>>
    ]_vars

\* C18: Start, Stop, Restart, SendCommand and Delete requested by a user who
\* is not the owner of the server fail with Forbidden and change neither the
\* handle, nor the processes and what is written to them, nor the registry
\* and the persisted records.
C18_NonOwnerForbidden ==
  [][ (who' # Owner
         /\ ev'.op \in {"Start", "Stop", "RestartStop", "SendCommand",
                        "Delete"})
        => /\ ev'.err = "Forbidden"
           /\ UNCHANGED <<isRunning, cmd, proc, sigs, stdin, restarting,
                          servers, dbServers>>
    ]_vars

\* C21: when the process of the current Start has exited, the handle
\* reports not running in the end; neither the exit nor the monitor hands
\* an error to a caller; and a Start that finds the handle not running is
\* not refused as already running.
C21_CrashSeenAsStopped ==
  /\ \A c \in Cmds : (cmd = c /\ proc[c] = "exited") ~> ~isRunning
  /\ [][ /\ ev'.op \in {"Exit", "MonitorWait", "Monitor"} => ev'.err = "nil"
         /\ (ev'.op = "Start" /\ ~isRunning) => ev'.err # "AlreadyRunning"
       ]_vars

\* process 1 ended without any Stop, its monitor cleared the flag, and the
\* next Start was accepted
C21_Witness ==
  /\ proc[1] = "exited"
  /\ sigs[1] = 0
  /\ mon[1].st = "done"
  /\ ev = Event("Start", "nil", 2, <<>>)
  /\ isRunning

\* C23: provisioning a link is idempotent: every Setup of a server that
\* reports success, the first and any later one, leaves server.jar in the
\* environment as a link to the jar file (and mods, once linked, as a link
\* to the mod pack).
C23_SymlinkIdempotent ==
  [][ (ev'.op = "Setup" /\ ev'.err = "nil")
        => LET name == ev'.arg[1] IN
           /\ fsEnv'[name].jar = JarSource
           /\ fsEnv[name].mods # NoLink => fsEnv'[name].mods = ModsSource
    ]_vars

\* the call waits for sm.mutex, which it cannot take now
WaitsForSm(p) == call[p].pc = "smLock" /\ ~SmFree(p)

\* C22: operations on different identities do not exclude each other: no
\* call waits for the registry lock while a call on another identity, which
\* is in its operation, holds it.
C22_IdentitiesIndependent ==
  \A p, q \in Procs :
    (WaitsForSm(p) /\ HoldsSm(q)) => call[q].id = call[p].id

\* C25: IsRunning never waits on process I/O: a call of IsRunning that
\* waits for the lock of the handle never waits for a call that holds it
\* while it fetches the start configuration, spawns, or writes to the
\* input stream of the process.
C25_IsRunningNeverWaitsOnIO ==
  \A p, q \in Procs :
    (call[p].op = "IsRunning" /\ call[p].pc = "sLock"
       /\ sMutex[call[p].id] = q)
      => ~InProcessIO(q)

\* C30: no call holds the registry lock while it performs process I/O:
\* a call that fetches the start configuration, spawns a process or writes
\* to the input stream of a process holds only the lock of the handle.
C30_NoRegistryLockDuringIO ==
  \A p \in Procs : InProcessIO(p) => ~HoldsSm(p)

\* ------------------------------------------ ServerManager.GetServerOutput
\* The text GetServerOutput returns, as the sequence of the lines of process
\* output it is made of: "Server output would appear here..." is a fixed
\* text that holds no line of any process
PlaceholderOutput == <<>>

\* GET /servers/{id}/output: nothing of the handle is read and no line is
\* stored anywhere (updateServerOutput fills a local buffer and has no caller)
GetServerOutput ==
  /\ ~crashed
  /\ UNCHANGED regvars
  /\ ev' = Event("GetServerOutput", "nil", cmd, PlaceholderOutput)
  /\ UNCHANGED <<isRunning, cmd, stopOnce, doneOnce, doneClosed, proc, sigs,
                 stdin, mon, rdr, loop, execCmd, restarting, startsSince>>
  /\ UNCHANGED castvars

\* starts in the specifications of the output of one process
MaxCmdOut == 1

\* One start, its process writing lines, its reader and its monitor, and
\* requests for the output
NextOut ==
  \/ (NumCmd < MaxCmdOut /\ StartServer)
  \/ StopServer
  \/ \E c \in Cmds : ProcExit(c)
  \/ \E g \in Cmds : MonitorWait(g)
  \/ \E g \in Cmds : MonitorBody(g)
  \/ \E c \in Cmds : Emit(c)
  \/ \E g \in Cmds : ReaderBind(g)
  \/ \E g \in Cmds : ReaderScan(g)
  \/ \E g \in Cmds : ReaderPush(g)
  \/ \E g \in Cmds : ReaderEOF(g)
  \/ GetServerOutput

SpecOut == Init /\ [][NextOut]_vars

\* C24: once the server has been started and its process has written a line,
\* the output GetServerOutput returns contains that line.
C24_OutputContainsEmittedLine ==
  (ev.op = "GetServerOutput" /\ ev.err = "nil") =>
    \A c \in Cmds : \A k \in 1..emitted[c] :
      \E i \in 1..Len(ev.arg) : ev.arg[i] = [c |-> c, k |-> k]

\* C26: in every start generation the console channel is closed exactly once,
\* by whichever of the reader and the monitor gets there first; here the part
\* that it is never left open once both the reader and the monitor of a
\* generation have finished.
C26_ConsoleClosedWhenBothFinished ==
  \A g \in Cmds :
    (rdr[g].st = "done" /\ mon[g].st = "done") => consoleClosed

\* C27: after the process of a generation has exited, the monitor sets the
\* state to stopped and the done channel is closed, whatever the order of the
\* reader's EOF and the monitor's observation of the exit.
C27_MonitorStopsAndSignalsDone ==
  \A g \in Cmds :
    (mon[g].st = "done" /\ proc[mon[g].on] = "exited") =>
      /\ doneClosed
      /\ (cmd = mon[g].on => ~isRunning)

\* C28: every line the process writes is pushed onto the console channel
\* exactly once and in emission order; the reader never drops or skips a
\* line, the lines written just before the exit included. Nothing takes lines
\* off the console here, so once the reader has returned the console holds
\* the lines of its process, each once, in the order they were written.
C28_ReaderPushesEveryLine ==
  \A g \in Cmds :
    (rdr[g].st = "done" /\ rdr[g].on # 0) =>
      LET c == rdr[g].on IN
        /\ Len(console) >= emitted[c]
        /\ \A k \in 1..emitted[c] : console[k] = [c |-> c, k |-> k]

\* The broadcaster of each start with the goroutines of the handle and no
\* subscriber; every goroutine that can take a step takes it in the end
NextDrain ==
  \/ (NumCmd < MaxCmdOut /\ StartServer)
  \/ StopServer
  \/ \E c \in Cmds : ProcExit(c)
  \/ \E g \in Cmds : MonitorWait(g)
  \/ \E g \in Cmds : MonitorBody(g)
  \/ \E c \in Cmds : Emit(c)
  \/ \E g \in Cmds : ReaderBind(g)
  \/ \E g \in Cmds : ReaderScan(g)
  \/ \E g \in Cmds : ReaderPush(g)
  \/ \E g \in Cmds : ReaderEOF(g)
  \/ \E g \in Cmds : LoopRecv(g)
  \/ \E g \in Cmds : LoopEnd(g)

SpecDrain ==
  /\ Init
  /\ [][NextDrain]_vars
  /\ \A g \in Cmds :
       /\ WF_vars(MonitorWait(g)) /\ WF_vars(MonitorBody(g))
       /\ WF_vars(ReaderBind(g)) /\ WF_vars(ReaderScan(g))
       /\ WF_vars(ReaderPush(g)) /\ WF_vars(ReaderEOF(g))
       /\ WF_vars(LoopRecv(g)) /\ WF_vars(LoopEnd(g))

\* C29: after the process of a started server has exited, the broadcaster
\* loop started for that start terminates in the end (or the program has
\* ended), because the console channel it reads is closed in the end.
C29_BroadcasterTerminates ==
  \A g \in Cmds :
    (loop[g].st = "recv" /\ proc[g] = "exited") ~>
      (loop[g].st = "done" \/ crashed)

\* C31: the broadcaster never sends on a closed subscriber channel, however
\* UnsubscribeOutput (which closes the channel) interleaves with the fan-out
\* of a line whose subscriber slice was taken before it.
C31_NoSendOnClosedSubscriber ==
  [][ \A g \in Cmds : LoopSend(g) => ~crashed' ]_vars

\* C32: the reader never sends on a closed console channel; in a second or
\* later start generation, after an earlier generation closed the console,
\* the reader of the new generation pushes no line onto the closed channel.
C32_NoSendOnClosedConsole ==
  [][ \A g \in Cmds : ReaderPush(g) => ~crashed' ]_vars

\* C33: the exit of the process of an earlier generation never changes the
\* state of a later one: while the process of the last successful Start is
\* alive and the handle reports running, the body of a monitor that waited on
\* an earlier process leaves the handle running.
C33_StaleExitKeepsRunning ==
  [][ \A g \in Cmds :
        ( /\ MonitorBody(g)
          /\ mon[g].on # cmd /\ proc[mon[g].on] = "exited"
          /\ isRunning /\ proc[cmd] = "alive" )
          => isRunning' ]_vars

\* the broadcaster loops that have been started and have not returned
ActiveLoops == { g \in Cmds : loop[g].st \in {"recv", "send"} }

\* C34: at any time at most one broadcaster loop consumes the console of the
\* server: when a Start starts a new loop, every loop of an earlier Start
\* has returned.
C34_AtMostOneBroadcaster == Cardinality(ActiveLoops) <= 1

\* ServerManager.RestartServer, which is Stop then Start of the handle, with
\* the goroutines that end a generation: the monitor, the reader at the end
\* of the stream and the broadcaster loop at the closed console
NextRestart ==
  \/ (NumCmd < MaxCmdOut /\ StartServer)
  \/ RestartStop
  \/ (NumCmd < MaxCmdLive /\ RestartStart)
  \/ \E c \in Cmds : ProcExit(c)
  \/ \E g \in Cmds : MonitorWait(g)
  \/ \E g \in Cmds : MonitorBody(g)
  \/ \E g \in Cmds : ReaderBind(g)
  \/ \E g \in Cmds : ReaderEOF(g)
  \/ \E g \in Cmds : LoopEnd(g)

SpecRestart == Init /\ [][NextRestart]_vars

\* C35: after a successful Restart a broadcaster loop is active for the
\* server, as after a successful Start.
C35_LoopActiveAfterRestart ==
  [][ (ev'.op = "RestartStart" /\ ev'.err = "nil") => ActiveLoops' # {} ]_vars

\* C36: each broadcast line is delivered at most once to each subscriber,
\* also when an UnsubscribeOutput of another channel runs during the
\* fan-out of the line.
C36_LineDeliveredAtMostOnce ==
  \A ch \in Chans :
    \A i, j \in 1..Len(delivered[ch]) :
      i # j => delivered[ch][i] # delivered[ch][j]

\* conn.WriteMessage fails for the line the handler took (the client is
\* gone): break, and the deferred UnsubscribeOutput removes and closes the
\* channel
WriteFailed(ch) ==
  /\ chans[ch].st = "open"
  /\ chans[ch].n > 0
  /\ UnsubscribeOutput(ch)

\* One start with WebSocket subscribers: the handler leaves its loop only
\* through a failed write; every goroutine that can take a step takes it in
\* the end, and a client may stay connected for ever
NextWS ==
  \/ (NumCmd < MaxCmdOut /\ StartServer)
  \/ \E c \in Cmds : ProcExit(c)
  \/ \E g \in Cmds : MonitorWait(g)
  \/ \E g \in Cmds : MonitorBody(g)
  \/ \E c \in Cmds : Emit(c)
  \/ \E g \in Cmds : ReaderBind(g)
  \/ \E g \in Cmds : ReaderScan(g)
  \/ \E g \in Cmds : ReaderPush(g)
  \/ \E g \in Cmds : ReaderEOF(g)
  \/ (NumChans < MaxSubsCast /\ SubscribeOutput)
  \/ \E g \in Cmds : LoopRecv(g)
  \/ \E g \in Cmds : LoopSend(g)
  \/ \E g \in Cmds : LoopEnd(g)
  \/ \E ch \in Chans : Consume(ch)
  \/ \E ch \in Chans : WriteFailed(ch)

SpecWS ==
  /\ Init
  /\ [][NextWS]_vars
  /\ \A g \in Cmds :
       /\ WF_vars(MonitorWait(g)) /\ WF_vars(MonitorBody(g))
       /\ WF_vars(ReaderBind(g)) /\ WF_vars(ReaderScan(g))
       /\ WF_vars(ReaderPush(g)) /\ WF_vars(ReaderEOF(g))
       /\ WF_vars(LoopRecv(g)) /\ WF_vars(LoopSend(g))
       /\ WF_vars(LoopEnd(g))
  /\ \A ch \in Chans : WF_vars(Consume(ch))

\* C37: a WebSocket subscriber never lingers for ever: once the process of
\* the server has exited, the handler's loop over the subscriber channel ends
\* and the channel is unsubscribed and closed in the end.
C37_SubscriberEndsAfterExit ==
  \A ch \in Chans :
    (chans[ch].st = "open" /\ cmd # 0 /\ proc[cmd] = "exited") ~>
      (chans[ch].st = "closed" \/ crashed)

\* call p waits for a lock that call q holds, or for a writer q that waits
\* in front of it
Waits(p, q) ==
  \/ /\ call[p].pc = "smLock" /\ ~SmFree(p)
     /\ \/ HoldsSm(q)
        \/ /\ call[p].op \notin WriterOps
           /\ q # p /\ call[q].pc = "smLock" /\ call[q].op \in WriterOps
  \/ /\ call[p].pc = "stLock" /\ ~StFree(p)
     /\ \/ HoldsSt(q)
        \/ /\ call[p].op \notin WriterOps
           /\ q # p /\ call[q].pc = "stLock" /\ call[q].op \in WriterOps
  \/ /\ call[p].pc = "sLock"
     /\ sMutex[call[p].id] = q

\* a chain of at most n waits leads from p to q
RECURSIVE WaitsChain(_, _, _)
WaitsChain(p, q, n) ==
  IF n = 0 THEN FALSE
  ELSE \/ Waits(p, q)
       \/ \E r \in Procs : Waits(p, r) /\ WaitsChain(r, q, n - 1)

\* C38: the locks never deadlock: no state has calls that wait for each
\* other's registry lock, stream lock or handle lock in a cycle (a call
\* waiting for a lock it holds itself included).
C38_NoLockCycle == \A p \in Procs : ~WaitsChain(p, p, MaxProcs)

\* a call waits for the registry lock while the call that holds it holds a
\* handle lock as well
C38_Witness ==
  \E p, q \in Procs :
    /\ p # q
    /\ call[p].pc = "smLock" /\ Waits(p, q)
    /\ HoldsSm(q) /\ sMutex[call[q].id] = q

\* the persisted servers
Persisted == { id \in PersistIds : dbServers[id] # NoName }

\* C40: distinct persisted ids map to distinct registry keys, so that
\* registering a server never replaces the handle of another server: two
\* persisted servers never share a key, and a successful Create, whose id is
\* new, finds no entry under its key.
C40_DistinctIdsDistinctKeys ==
  [][ /\ \A a, b \in Persisted' : a # b => KeyOf(a) # KeyOf(b)
      /\ (ev'.op = "Create" /\ ev'.err = "nil") => servers[KeyOf(ev'.c)] = 0
    ]_vars

\* ------------------------------------------------------------------ the fleet
\* The operations of the manager on any key of the registry. Of a handle only
\* the running flag is followed (the process is alive while it is set), of a
\* key its list of subscribers, of a line the server whose process wrote it.
\* The snapshot of streamServerOutput and the channels' buffers are left to
\* the fan-out above: a line is sent into every channel of the key at once.
fleetframe == <<dbServers, dbConfigs, fsEnv, lastId, gpc, who, mutexvars,
                handlevars, castvars>>

\* the record the store finds for a key: `Where("id = ?", id).First`
Persists(k) == k \in PersistIds /\ dbServers[k] # NoName

\* ServerManager.StartServer: a key without an entry is loaded from the
\* store; the record of the key is looked up again (verifyRequiredFiles);
\* srv.Start(); go sm.streamServerOutput(id, srv)
StartServerAt(k, spawn) ==
  LET load == servers[k] = 0
      h == IF load THEN numHandles + 1 ELSE servers[k]
      err == IF ~Persists(k) THEN "NotFound"
             ELSE IF fleetRunning[h] THEN "AlreadyRunning"
             ELSE IF spawn # "ok" THEN "StartFailed"
             ELSE "nil"
  IN
  /\ ~crashed
  /\ IF load /\ Persists(k)
       THEN /\ numHandles < MaxHandles
            /\ numHandles' = numHandles + 1
            /\ servers' = [servers EXCEPT ![k] = h]
            /\ built' = [built EXCEPT ![k] = @ + 1]
            /\ model' = [model EXCEPT ![h] = k]
       ELSE UNCHANGED <<numHandles, servers, built, model>>
  /\ fleetRunning' = IF err = "nil"
                       THEN [fleetRunning EXCEPT ![h] = TRUE]
                       ELSE fleetRunning
  /\ streamers' = IF err = "nil" THEN streamers \cup {<<k, h>>} ELSE streamers
  /\ ev' = Event("StartServer", err, k, <<>>)
  /\ UNCHANGED <<outputStreams, subscribedTo, heard>>
  /\ UNCHANGED fleetframe

\* ServerManager.StopServer: srv.Stop() on the entry of the key
StopServerAt(k) ==
  LET h == servers[k]
      err == IF h = 0 THEN "NotFound"
             ELSE IF ~fleetRunning[h] THEN "NotRunning"
             ELSE "nil"
  IN
  /\ ~crashed
  /\ fleetRunning' = IF err = "nil"
                       THEN [fleetRunning EXCEPT ![h] = FALSE]
                       ELSE fleetRunning
  /\ ev' = Event("StopServer", err, k, <<>>)
  /\ UNCHANGED <<servers, numHandles, built, model, outputStreams, streamers,
                 subscribedTo, heard>>
  /\ UNCHANGED fleetframe

\* ServerManager.RestartServer: srv.Restart() on the entry of the key, which
\* is Stop and, when Stop succeeded, Start
RestartServerAt(k, spawn) ==
  LET h == servers[k]
      err == IF h = 0 THEN "NotFound"
             ELSE IF ~fleetRunning[h] THEN "NotRunning"
             ELSE IF spawn # "ok" THEN "StartFailed"
             ELSE "nil"
  IN
  /\ ~crashed
  /\ fleetRunning' = IF err = "StartFailed"
                       THEN [fleetRunning EXCEPT ![h] = FALSE]
                       ELSE fleetRunning
  /\ ev' = Event("RestartServer", err, k, <<>>)
  /\ UNCHANGED <<servers, numHandles, built, model, outputStreams, streamers,
                 subscribedTo, heard>>
  /\ UNCHANGED fleetframe

\* ServerManager.SendCommand: srv.SendCommand(command) on the entry of the
\* key; the command goes to the process of that handle
SendCommandAt(k) ==
  LET h == servers[k]
      err == IF h = 0 THEN "NotFound"
             ELSE IF ~fleetRunning[h] THEN "NotRunning"
             ELSE "nil"
  IN
  /\ ~crashed
  /\ ev' = Event("SendCommandTo", err, k, <<h>>)
  /\ ev' # ev
  /\ UNCHANGED <<servers, numHandles, built, model>>
  /\ UNCHANGED fleetvars
  /\ UNCHANGED fleetframe

\* ServerManager.SubscribeOutput: a new channel, appended to the list of the
\* key
SubscribeOutputAt(k, ch) ==
  /\ ~crashed
  /\ subscribedTo[ch] = 0
  /\ outputStreams' = [outputStreams EXCEPT ![k] = @ \cup {ch}]
  /\ subscribedTo' = [subscribedTo EXCEPT ![ch] = k]
  /\ ev' = Event("SubscribeOutput", "nil", k, <<ch>>)
  /\ UNCHANGED <<servers, numHandles, built, model, fleetRunning, streamers,
                 heard>>
  /\ UNCHANGED fleetframe

\* ServerManager.UnsubscribeOutput: the channel is looked for in the list of
\* the key, and removed and closed when it is there
UnsubscribeOutputAt(k, ch) ==
  /\ ~crashed
  /\ subscribedTo[ch] # 0
  /\ outputStreams' = [outputStreams EXCEPT ![k] = @ \ {ch}]
  /\ ev' = Event("UnsubscribeOutput", "nil", k, <<ch>>)
  /\ ev' # ev
  /\ UNCHANGED <<servers, numHandles, built, model, fleetRunning, streamers,
                 subscribedTo, heard>>
  /\ UNCHANGED fleetframe

\* streamServerOutput(id, srv): a line the process of srv wrote is sent into
\* every channel of the list of id
StreamLine(k, h) ==
  /\ ~crashed
  /\ <<k, h>> \in streamers
  /\ fleetRunning[h]
  /\ outputStreams[k] # {}
  /\ heard' = [ch \in Chans |->
                 IF ch \in outputStreams[k]
                   THEN heard[ch] \cup {model[h]}
                   ELSE heard[ch]]
  /\ ev' = Event("streamServerOutput", "nil", k, <<h>>)
  /\ UNCHANGED <<servers, numHandles, built, model, fleetRunning,
                 outputStreams, streamers, subscribedTo>>
  /\ UNCHANGED fleetframe

\* streamServerOutput(id, srv): the console of srv was closed after its
\* process went away, and the loop ends
StreamEnd(k, h) ==
  /\ ~crashed
  /\ <<k, h>> \in streamers
  /\ ~fleetRunning[h]
  /\ streamers' = streamers \ {<<k, h>>}
  /\ ev' = Event("streamServerOutput", "closed", k, <<h>>)
  /\ UNCHANGED <<servers, numHandles, built, model, fleetRunning,
                 outputStreams, subscribedTo, heard>>
  /\ UNCHANGED fleetframe

\* the operations the manager offers on one key
FleetOps == {"StartServer", "StopServer", "RestartServer", "SendCommandTo",
             "SubscribeOutput", "UnsubscribeOutput"}

\* The fleet: servers are created, and started, stopped, restarted, written
\* to and listened to under their keys
NextFleet ==
  \/ \E name \in Names, out \in {"ok", "configErr"} :
       CreateServer(name, FALSE, out)
  \/ \E k \in Keys, spawn \in {"ok", "spawnErr"} : StartServerAt(k, spawn)
  \/ \E k \in Keys : StopServerAt(k)
  \/ \E k \in Keys, spawn \in {"ok", "spawnErr"} : RestartServerAt(k, spawn)
  \/ \E k \in Keys : SendCommandAt(k)
  \/ \E k \in Keys, ch \in Chans : SubscribeOutputAt(k, ch)
  \/ \E k \in Keys, ch \in Chans : UnsubscribeOutputAt(k, ch)
  \/ \E k \in Keys, h \in Handles : StreamLine(k, h)
  \/ \E k \in Keys, h \in Handles : StreamEnd(k, h)

SpecFleet == Init /\ [][NextFleet]_vars

\* C39: output is isolated per server identity. A channel hears only lines
\* of the server it was subscribed under, and an operation of the manager on
\* one identity leaves the running flag (and with it the process) of every
\* handle of another server, and the subscriber list of every other
\* identity, as they were.
C39_OutputIsolatedPerIdentity ==
  [][ /\ \A ch \in Chans : heard'[ch] \subseteq {subscribedTo'[ch]}
      /\ \A k \in Keys :
           (ev'.op \in FleetOps /\ ev'.c = k) =>
             /\ \A h \in Handles :
                  model[h] \notin {0, k} => fleetRunning'[h] = fleetRunning[h]
             /\ \A j \in Keys \ {k} : outputStreams'[j] = outputStreams[j]
    ]_vars

====
